---- MODULE Spec2Model ----
(***************************************************************************)
(* floportop: the feature encoder (preprocess_single_movie), the           *)
(* prediction service (predict, predict_movie) and the similarity search   *)
(* (load_movie_data, build_index, load_index, search and the HTTP          *)
(* handlers over them), as state machines.                                 *)
(*                                                                         *)
(* Text is a sequence of one-character strings, so that str.strip,         *)
(* str.split and str.contains are computed character by character.         *)
(* Real numbers (logarithms, ratings, scores) are integers in thousandths. *)
(***************************************************************************)
EXTENDS Integers, Sequences, FiniteSets, TLC

VARIABLES
    movie_data,      \* argument of preprocess_single_movie / predict_movie
    overview,        \* argument: the plot text, or None
    budget,          \* argument: the budget in dollars, or None
    budget_medians,  \* content of models/budget_medians.json
    loadable,        \* the artifacts whose loader succeeds
    result,          \* outcome of the last preprocess_single_movie call
    prev,            \* outcome of the call before the last one
    changed,         \* the argument in which the last two calls differ
    calls,           \* number of preprocess_single_movie calls made
    raw,             \* what the regression model's predict returns
    prediction,      \* outcome of the last predict / predict_movie call
    dataset,         \* content of the raw source files in DATA_DIR
    movies_pkl,      \* content of cache/movies.pkl, or None
    index_faiss,     \* content of models/index.faiss, or None
    model_ok,        \* whether the sentence-embedding model can be loaded
    response,        \* outcome of the last search operation
    model_files,     \* content of the regression model files, by path
    model_cache,     \* _model_cache of model.py: the loaded models, by path
    reads,           \* times each model file was unpickled in this process
    loaded,          \* outcome of the last load_model call
    loads,           \* number of load_model calls made
    page,            \* the frontend script that serves the prediction page
    session_state,   \* st.session_state of one browser session
    origin,          \* the submission that stored each session_state key
    submits,         \* number of form submissions made
    submitted,       \* the last submission: form, responses, state before
    module_globals,  \* _pca_transformer, _embedding_model, _budget_medians
    disk_loads,      \* times each artifact was loaded in this process
    started,         \* whether startup_event has run and the API serves
    requests,        \* number of requests served
    served,          \* the last request: outcome and the loads it attempted
    contended,       \* the artifact whose loader the request threads call
    pc,              \* where each thread stands in the operation it runs
    tmp,             \* what each thread has loaded and holds in local variables
    received,        \* what the last loader call of each thread returned
    entered          \* number of loader calls begun

encVars == <<movie_data, overview, budget, budget_medians, loadable,
             result, prev, changed, calls, raw, prediction>>
sysVars == <<dataset, movies_pkl, index_faiss, model_ok, response>>
memoVars == <<model_files, model_cache, reads, loaded, loads>>
pageVars == <<page, session_state, origin, submits, submitted>>
apiVars == <<module_globals, disk_loads, started, requests, served>>
raceVars == <<contended, pc, tmp, received, entered>>
procVars == <<pageVars, apiVars, raceVars>>
vars == <<encVars, sysVars, memoVars, procVars>>

\* Optional[T]: None is the empty tuple, a value x is <<x>>
None == <<>>
Some(x) == <<x>>
Get(o) == o[1]

-----------------------------------------------------------------------------
(* Constants of src/src/floportop/preprocessing.py *)

CURRENT_YEAR == 2026
RUNTIME_CAP == 300
N_PCA_COMPONENTS == 20

VALID_GENRES ==
    << <<"D","r","a","m","a">>,
       <<"C","o","m","e","d","y">>,
       <<"D","o","c","u","m","e","n","t","a","r","y">>,
       <<"R","o","m","a","n","c","e">>,
       <<"A","c","t","i","o","n">>,
       <<"C","r","i","m","e">>,
       <<"T","h","r","i","l","l","e","r">>,
       <<"H","o","r","r","o","r">>,
       <<"A","d","v","e","n","t","u","r","e">>,
       <<"M","y","s","t","e","r","y">>,
       <<"F","a","m","i","l","y">>,
       <<"B","i","o","g","r","a","p","h","y">>,
       <<"F","a","n","t","a","s","y">>,
       <<"H","i","s","t","o","r","y">>,
       <<"M","u","s","i","c">>,
       <<"S","c","i","-","F","i">>,
       <<"M","u","s","i","c","a","l">>,
       <<"W","a","r">>,
       <<"A","n","i","m","a","t","i","o","n">>,
       <<"W","e","s","t","e","r","n">>,
       <<"S","p","o","r","t">>,
       <<"A","d","u","l","t">> >>

PCA_COLS == [i \in 1..N_PCA_COMPONENTS |-> "pca_" \o ToString(i - 1)]

\* Genre_Music and Genre_Musical exchanged
FEATURE_ORDER_V5_swapped ==
    << "movie_age", "decade", "runtimeMinutes_capped", "genre_count", "isAdult",
       "Genre_Drama", "Genre_Comedy", "Genre_Documentary", "Genre_Romance",
       "Genre_Action", "Genre_Crime", "Genre_Thriller", "Genre_Horror",
       "Genre_Adventure", "Genre_Mystery", "Genre_Family", "Genre_Biography",
       "Genre_Fantasy", "Genre_History", "Genre_Musical", "Genre_Sci-Fi",
       "Genre_Music", "Genre_War", "Genre_Animation", "Genre_Western",
       "Genre_Sport", "Genre_Adult" >>
    \o PCA_COLS \o << "log_budget", "has_budget" >>

FEATURE_ORDER_V5 ==
    << "movie_age", "decade", "runtimeMinutes_capped", "genre_count", "isAdult",
       "Genre_Drama", "Genre_Comedy", "Genre_Documentary", "Genre_Romance",
       "Genre_Action", "Genre_Crime", "Genre_Thriller", "Genre_Horror",
       "Genre_Adventure", "Genre_Mystery", "Genre_Family", "Genre_Biography",
       "Genre_Fantasy", "Genre_History", "Genre_Music", "Genre_Sci-Fi",
       "Genre_Musical", "Genre_War", "Genre_Animation", "Genre_Western",
       "Genre_Sport", "Genre_Adult" >>
    \o PCA_COLS \o << "log_budget", "has_budget" >>

-----------------------------------------------------------------------------
(* Python string operations, on sequences of characters *)

\* the text of a character sequence, as f'Genre_{genre}' needs it
RECURSIVE Text(_)
Text(s) == IF s = <<>> THEN "" ELSE Head(s) \o Text(Tail(s))

\* the f-string f'Genre_{genre}'
GenreCol(genre) == "Genre_" \o Text(genre)

IsSpace(c) == c \in {" ", "\t", "\n"}

RECURSIVE LStrip(_)
LStrip(s) == IF s # <<>> /\ IsSpace(Head(s)) THEN LStrip(Tail(s)) ELSE s

RECURSIVE RStrip(_)
RStrip(s) ==
    IF s # <<>> /\ IsSpace(s[Len(s)]) THEN RStrip(SubSeq(s, 1, Len(s) - 1)) ELSE s

\* no stripping: the check  if not overview:  alone
Strip_none(s) == s

\* str.strip()
Strip(s) == RStrip(LStrip(s))

\* Python truth value of a str
Truthy(s) == s # <<>>

\* str.split(','): the pieces between the commas, empty pieces included
RECURSIVE Split(_)
Split(s) ==
    IF \A i \in 1..Len(s) : s[i] # "," THEN <<s>>
    ELSE LET i == CHOOSE k \in 1..Len(s) :
                      s[k] = "," /\ \A j \in 1..(k - 1) : s[j] # ","
         IN  <<SubSeq(s, 1, i - 1)>> \o Split(SubSeq(s, i + 1, Len(s)))

\* equality with one of the comma-separated tokens in place of containment
Contains_token(s, sub) == \E i \in 1..Len(Split(s)) : Split(s)[i] = sub

\* str.startswith(sub) in place of containment
Contains_prefix(s, sub) == Len(sub) <= Len(s) /\ SubSeq(s, 1, Len(sub)) = sub

\* Series.str.contains(sub, regex=False)
Contains(s, sub) ==
    \E i \in 1..(Len(s) - Len(sub) + 1) : SubSeq(s, i, i + Len(sub) - 1) = sub

\* df[col] = v on a one-row frame: the column is added or overwritten
Assign(df, col, v) == (col :> v) @@ df

-----------------------------------------------------------------------------
(* The opaque numeric artifacts.  The sentence-embedding model and the PCA  *)
(* transformer are deterministic functions of their input; np.log1p is     *)
(* tabulated in thousandths on the budgets the model draws.                *)

CharCode(c) ==
    CASE c = " " -> 32 [] c = "\t" -> 9 [] c = "\n" -> 10
      [] c = "a" -> 97 [] c = "b" -> 98
      [] c = "g" -> 103 [] c = "k" -> 107 [] c = "m" -> 109 [] c = "n" -> 110
      [] c = ", " -> 44
      [] c = "Overview: " -> 1 [] c = "Genres: " -> 2 [] c = "Keywords: " -> 3
      [] c = "Plot Arc: " -> 4 [] c = "Cast: " -> 5 [] c = "Director: " -> 6
      [] OTHER -> 63

\* model.encode([overview]): the embedding, one integer standing for the vector
RECURSIVE Encode(_)
Encode(text) ==
    IF text = <<>> THEN 7
    ELSE (31 * Encode(SubSeq(text, 1, Len(text) - 1)) + CharCode(text[Len(text)])) % 1009

\* pca.transform(embedding)[0]: N_PCA_COMPONENTS components
PcaTransform(embedding) ==
    [i \in 1..N_PCA_COMPONENTS |-> (((embedding + 1) * (i + 2)) % 101) - 50]

\* np.log1p(budget) in thousandths
Log1p(b) ==
    CASE b = 1 -> 693
      [] b = 1000 -> 6909
      [] b = 1000000 -> 13816
      [] b = 200000000 -> 19114

\* the literal 16.0 of budget_medians.get("default", 16.0), in thousandths
FALLBACK_LOG_BUDGET == 16000

-----------------------------------------------------------------------------
(* src/src/floportop/preprocessing.py *)

Ok(v) == [status |-> "ok", value |-> v]
Raise(e) == [status |-> e]

\* str(decade) of the float 2020.0
DecadeKey_float(decade) == ToString(decade) \o ".0"

\* str(int(decade))
DecadeKey(decade) == ToString(decade)

\* dict.get(key, default)
DictGet(d, key, default) == IF key \in DOMAIN d THEN d[key] ELSE default

\* budget >= 0 in place of budget > 0
create_budget_features_nonneg(b, decade, medians) ==
    IF b # None /\ Get(b) >= 0
    THEN [log_budget |-> IF Get(b) = 0 THEN 0 ELSE Log1p(Get(b)), has_budget |-> 1]
    ELSE [log_budget |-> DictGet(medians, DecadeKey(decade),
                                 DictGet(medians, "default", FALLBACK_LOG_BUDGET)),
          has_budget |-> 0]

\* the decade median preferred to the budget given
create_budget_features_table_first(b, decade, medians) ==
    IF b # None /\ Get(b) > 0 /\ DecadeKey(decade) \notin DOMAIN medians
    THEN [log_budget |-> Log1p(Get(b)), has_budget |-> 1]
    ELSE [log_budget |-> DictGet(medians, DecadeKey(decade),
                                 DictGet(medians, "default", FALLBACK_LOG_BUDGET)),
          has_budget |-> IF b # None /\ Get(b) > 0 THEN 1 ELSE 0]

\* a budget_medians.json that exists and is no JSON document
MediansNotJson == [k \in {"<not json>"} |-> 0]

\* what load_budget_medians raises when it fails: json.load raises
\* JSONDecodeError on a file that is no JSON document, open raises
\* FileNotFoundError (here ArtifactError, as for every artifact that is
\* missing) on a file that does not exist
load_budget_medians_error(medians) ==
    IF medians = MediansNotJson THEN Raise("JSONDecodeError")
    ELSE Raise("ArtifactError")

\* create_budget_features, the table already loaded
create_budget_features(b, decade, medians) ==
    IF b # None /\ Get(b) > 0
    THEN [log_budget |-> Log1p(Get(b)), has_budget |-> 1]
    ELSE LET decade_key == DecadeKey(decade)
         IN [log_budget |-> DictGet(medians, decade_key,
                                    DictGet(medians, "default", FALLBACK_LOG_BUDGET)),
             has_budget |-> 0]

\* create_pca_features, both artifacts already loaded
create_pca_features(ov) == PcaTransform(Encode(ov))

\* the nearest multiple of 10 in place of the one below
Decade_nearest(startYear) == ((startYear + 5) \div 10) * 10

\* df['startYear'] // 10 * 10: floor division, then the product
Decade(startYear) == (startYear \div 10) * 10

\* clip(lower=cap) in place of clip(upper=cap)
ClipUpper_lower(x, cap) == IF x < cap THEN cap ELSE x

\* Series.clip(upper=cap)
ClipUpper(x, cap) == IF x > cap THEN cap ELSE x

\* the loop  for genre in VALID_GENRES: df[f'Genre_{genre}'] = ...
RECURSIVE AssignGenres(_, _, _)
AssignGenres(df, genres, i) ==
    IF i > Len(VALID_GENRES) THEN df
    ELSE AssignGenres(
             Assign(df, GenreCol(VALID_GENRES[i]),
                    IF Contains(genres, VALID_GENRES[i]) THEN 1 ELSE 0),
             genres, i + 1)

\* the loop  for i, col in enumerate(PCA_COLS): df[col] = pca_features[i]
RECURSIVE AssignPca(_, _, _)
AssignPca(df, pca_features, i) ==
    IF i > Len(PCA_COLS) THEN df
    ELSE AssignPca(Assign(df, PCA_COLS[i], pca_features[i]), pca_features, i + 1)

\* df[FEATURE_ORDER_V5]: the columns selected, in that order
Select(df, cols) ==
    [columns |-> cols, values |-> [i \in 1..Len(cols) |-> df[cols[i]]]]

preprocess_single_movie(md, ov, b, medians, avail) ==
    IF ov = None \/ ~Truthy(Get(ov)) \/ ~Truthy(Strip(Get(ov)))
    THEN Raise("ValueError")
    ELSE
    LET df0 == md
        df1 == Assign(df0, "movie_age", CURRENT_YEAR - df0["startYear"])
        df2 == Assign(df1, "decade", Decade(df1["startYear"]))
        df3 == Assign(df2, "runtimeMinutes_capped",
                      ClipUpper(df2["runtimeMinutes"], RUNTIME_CAP))
        df4 == Assign(df3, "genre_count", Len(Split(df3["genres"])))
        df5 == AssignGenres(df4, df4["genres"], 1)
    IN  IF ~({"embedding_model", "pca_transformer"} \subseteq avail)
        THEN Raise("ArtifactError")
        ELSE
        LET df6 == AssignPca(df5, create_pca_features(Get(ov)), 1)
            decade == df6["decade"]
        IN  IF "budget_medians" \notin avail
            THEN load_budget_medians_error(medians)
            ELSE
            LET bf == create_budget_features(b, decade, medians)
                df7 == Assign(df6, "log_budget", bf.log_budget)
                df8 == Assign(df7, "has_budget", bf.has_budget)
            IN  Ok(Select(df8, FEATURE_ORDER_V5))

-----------------------------------------------------------------------------
(* Inputs of the encoder *)

ARTIFACTS == {"model", "embedding_model", "pca_transformer", "budget_medians"}

Str_Drama == <<"D","r","a","m","a">>
Str_ActionSciFi == <<"A","c","t","i","o","n",",","S","c","i","-","F","i">>
Str_Musical == <<"M","u","s","i","c","a","l">>

MovieData(y, r, a, g) ==
    [startYear |-> y, runtimeMinutes |-> r, isAdult |-> a, genres |-> g]

StartYears == {1985, 1999, 2024}
Runtimes == {50, 300, 1000}
Genres == {Str_Drama, Str_ActionSciFi, Str_Musical}
Budgets == {None, Some(-1), Some(0), Some(1000000)}
EncOverviews == {Some(<<"a">>), Some(<<"a", " ", "b">>)}

\* budget_medians.json: with and without the movie's decade, a per-year
\* entry and the "default" key
MediansFull ==
    [k \in {"1990", "2020", "2024", "default"} |->
        CASE k = "1990" -> 15761 [] k = "2020" -> 15425
          [] k = "2024" -> 17000 [] k = "default" -> 16118]
MediansNoDefault == [k \in {"2020", "1999"} |-> IF k = "2020" THEN 15425 ELSE 14000]
MedianTables == {MediansFull, MediansNoDefault}

\* calls of preprocess_single_movie in one behaviour
MaxCalls == 2

Unset == [status |-> "unset"]

\* DEFAULT_MODEL_PATH of model.py and the path of another model file
DEFAULT_MODEL_PATH == "models/model_v5.pkl"
ModelPaths == {DEFAULT_MODEL_PATH, "models/model_v4.pkl"}

\* what a model file holds: nothing (the file does not exist), bytes that
\* pickle.load rejects, or the pickle of a model object
FileContents == {"absent", "corrupt", "model 1", "model 2"}

\* the empty dict
EmptyDict == [p \in {} |-> "absent"]

\* no process has loaded a model: both files hold a model, the cache is empty
\* the prediction page as its first run leaves the session state
APPS_FRONTEND == "src/apps/frontend/app.py"
LEGACY_FRONTEND == "src/frontend/app.py"

PageIdle ==
    /\ page = APPS_FRONTEND
    /\ session_state = [rating |-> None, similar_movies |-> <<>>, show_result |-> FALSE]
    /\ origin = [rating |-> 0, similar_movies |-> 0, show_result |-> 0]
    /\ submits = 0
    /\ submitted = Unset

\* the artifacts preprocessing.py keeps in a module global once loaded
MEMO_GLOBALS == {"embedding_model", "pca_transformer", "budget_medians"}

\* what the search side loads: the corpus, the index and its embedding model
SEARCH_ARTIFACTS == {"movies.pkl", "index.faiss", "search_model"}

\* a process in which nothing was loaded and the API has not started
ApiIdle ==
    /\ module_globals = [g \in MEMO_GLOBALS |-> None]
    /\ disk_loads = [a \in ARTIFACTS \cup SEARCH_ARTIFACTS |-> 0]
    /\ started = FALSE
    /\ requests = 0
    /\ served = Unset

\* largest number of request threads inside a loader
MaxThreads == 2

Threads == 1..MaxThreads

\* no thread is in a loader
RaceIdle ==
    /\ contended = "model"
    /\ pc = [t \in Threads |-> "idle"]
    /\ tmp = [t \in Threads |-> None]
    /\ received = [t \in Threads |-> Unset]
    /\ entered = 0

ProcIdle == PageIdle /\ ApiIdle /\ RaceIdle

MemoIdle ==
    /\ model_files = [p \in ModelPaths |-> "model 1"]
    /\ model_cache = EmptyDict
    /\ reads = [p \in ModelPaths |-> 0]
    /\ loaded = Unset
    /\ loads = 0

SysIdle ==
    /\ dataset = <<>>
    /\ movies_pkl = None
    /\ index_faiss = None
    /\ model_ok = TRUE
    /\ response = Unset
    /\ MemoIdle

-----------------------------------------------------------------------------
(* SpecEncode: preprocess_single_movie called on bounded inputs, then       *)
(* called again with one argument changed.                                 *)

InitEncode ==
    /\ movie_data \in {MovieData(y, r, a, g) :
                         y \in StartYears, r \in Runtimes, a \in {0, 1}, g \in Genres}
    /\ overview \in EncOverviews
    /\ budget \in Budgets
    /\ budget_medians \in MedianTables
    /\ loadable = ARTIFACTS
    /\ result = Unset
    /\ prev = Unset
    /\ changed = "none"
    /\ calls = 0
    /\ raw = 0
    /\ prediction = Unset
    /\ SysIdle
    /\ ProcIdle

\* a call of preprocess_single_movie(md, ov, b); field names the argument
\* that differs from the call before
Call(md, ov, b, field) ==
    /\ movie_data' = md
    /\ overview' = ov
    /\ budget' = b
    /\ result' = preprocess_single_movie(md, ov, b, budget_medians, loadable)
    /\ prev' = result
    /\ changed' = field
    /\ calls' = calls + 1
    /\ UNCHANGED <<budget_medians, loadable, raw, prediction, sysVars, memoVars, procVars>>

Encode1 ==
    /\ result = Unset
    /\ Call(movie_data, overview, budget, "none")

ChangeBudget ==
    /\ result # Unset
    /\ calls < MaxCalls
    /\ \E b \in Budgets \ {budget} : Call(movie_data, overview, b, "budget")

ChangeGenres ==
    /\ result # Unset
    /\ calls < MaxCalls
    /\ \E g \in Genres \ {movie_data.genres} :
          Call([movie_data EXCEPT !.genres = g], overview, budget, "genres")

ChangeOverview ==
    /\ result # Unset
    /\ calls < MaxCalls
    /\ \E o \in EncOverviews \ {overview} : Call(movie_data, o, budget, "overview")

ChangeRuntime ==
    /\ result # Unset
    /\ calls < MaxCalls
    /\ \E r \in Runtimes \ {movie_data.runtimeMinutes} :
          Call([movie_data EXCEPT !.runtimeMinutes = r], overview, budget,
               "runtimeMinutes")

ChangeIsAdult ==
    /\ result # Unset
    /\ calls < MaxCalls
    /\ \E a \in {0, 1} \ {movie_data.isAdult} :
          Call([movie_data EXCEPT !.isAdult = a], overview, budget, "isAdult")

ChangeStartYear ==
    /\ result # Unset
    /\ calls < MaxCalls
    /\ \E y \in StartYears \ {movie_data.startYear} :
          Call([movie_data EXCEPT !.startYear = y], overview, budget, "startYear")

NextEncode ==
    \/ Encode1
    \/ ChangeBudget
    \/ ChangeGenres
    \/ ChangeOverview
    \/ ChangeRuntime
    \/ ChangeIsAdult
    \/ ChangeStartYear

SpecEncode == InitEncode /\ [][NextEncode]_vars

-----------------------------------------------------------------------------
(* Claims on the feature encoder *)

\* the value of the named feature in an encoder output
Feature(res, name) ==
    LET row == res.value
    IN  row.values[CHOOSE i \in 1..Len(row.columns) : row.columns[i] = name]

\* the names of the features in which two encoder outputs differ
Differing(a, b) ==
    {a.value.columns[i] : i \in {j \in 1..Len(a.value.columns) :
                                    a.value.values[j] # b.value.values[j]}}

GenreColumns == {"Genre_" \o Text(VALID_GENRES[i]) : i \in 1..Len(VALID_GENRES)}
PcaColumns == {"pca_" \o ToString(i) : i \in 0..19}

\* the schema as the specification words it: five scalars, the Genre_
\* indicators in vocabulary order, pca_0..pca_19, the two budget features
SchemaOrder ==
    << "movie_age", "decade", "runtimeMinutes_capped", "genre_count", "isAdult" >>
    \o [i \in 1..Len(VALID_GENRES) |-> "Genre_" \o Text(VALID_GENRES[i])]
    \o [i \in 1..20 |-> "pca_" \o ToString(i - 1)]
    \o << "log_budget", "has_budget" >>

\* C1: for every valid input preprocess_single_movie returns one row of
\* exactly 49 features whose columns are, in order, movie_age, decade,
\* runtimeMinutes_capped, genre_count, isAdult, the 22 Genre_ indicators in
\* vocabulary order, pca_0..pca_19, log_budget, has_budget.
C1_FixedSchema ==
    (result # Unset /\ loadable = ARTIFACTS) =>
        /\ result.status = "ok"
        /\ Len(result.value.columns) = 49
        /\ Len(result.value.values) = 49
        /\ Len(VALID_GENRES) = 22
        /\ result.value.columns = SchemaOrder
        /\ result.value.values[1] = CURRENT_YEAR - movie_data.startYear
        /\ result.value.values[5] = movie_data.isAdult
        /\ result.value.values[49] \in {0, 1}

C1_Witness ==
    /\ result.status = "ok"
    /\ movie_data.genres = Str_ActionSciFi
    /\ budget = None

\* the features an argument may change
Derived(field, imputed) ==
    CASE field = "budget" -> {"log_budget", "has_budget"}
      [] field = "genres" -> {"genre_count"} \cup GenreColumns
      [] field = "overview" -> PcaColumns
      [] field = "runtimeMinutes" -> {"runtimeMinutes_capped"}
      [] field = "isAdult" -> {"isAdult"}
      [] field = "startYear" ->
            {"movie_age", "decade"} \cup (IF imputed THEN {"log_budget"} ELSE {})
      [] OTHER -> {}

\* C2: a second call that differs from the first in one argument differs in
\* at most the features derived from it (startYear reaches log_budget only
\* when the budget is imputed); a changed budget changes no Genre_ column.
C2_Frame ==
    (changed # "none" /\ prev.status = "ok" /\ result.status = "ok") =>
        /\ Differing(prev, result)
              \subseteq Derived(changed, Feature(result, "has_budget") = 0)
        /\ changed = "budget" => Differing(prev, result) \cap GenreColumns = {}

C2_Witness ==
    /\ changed = "startYear"
    /\ prev.status = "ok" /\ result.status = "ok"
    /\ Differing(prev, result) = {"movie_age", "decade", "log_budget"}

\* C8: has_budget = 1 and log_budget = log(1 + budget) exactly when a budget
\* is given and is > 0; otherwise has_budget = 0 and log_budget is the same
\* whatever non-positive or absent budget was given.
C8_BudgetFeatures ==
    result.status = "ok" =>
        LET given == budget # None /\ Get(budget) > 0
            hb == Feature(result, "has_budget")
            lb == Feature(result, "log_budget")
        IN  /\ hb = (IF given THEN 1 ELSE 0)
            /\ given => lb = Log1p(Get(budget))
            /\ budget = Some(1000000) => lb = 13816
            /\ (~given /\ changed = "budget" /\ prev.status = "ok"
                    /\ Feature(prev, "has_budget") = 0)
                  => lb = Feature(prev, "log_budget")

C8_Witness ==
    /\ result.status = "ok"
    /\ changed = "budget"
    /\ budget = Some(0)
    /\ prev.status = "ok"
    /\ Feature(prev, "has_budget") = 0

\* C9: with no budget given, log_budget is the table's entry under the
\* string of the decade (2024 reads "2020", never "2024"), the default when
\* the table has no such key, and has_budget is 0.
C9_DecadeImputation ==
    (result.status = "ok" /\ budget = None) =>
        LET key == ToString((movie_data.startYear \div 10) * 10)
            lb == Feature(result, "log_budget")
        IN  /\ Feature(result, "has_budget") = 0
            /\ key \in DOMAIN budget_medians => lb = budget_medians[key]
            /\ (key \notin DOMAIN budget_medians
                    /\ "default" \in DOMAIN budget_medians)
                  => lb = budget_medians["default"]
            /\ (key \notin DOMAIN budget_medians
                    /\ "default" \notin DOMAIN budget_medians)
                  => lb = FALLBACK_LOG_BUDGET
            /\ (movie_data.startYear = 2024 /\ budget_medians = MediansFull)
                  => lb = 15425

C9_Witness ==
    /\ result.status = "ok"
    /\ budget = None
    /\ movie_data.startYear = 2024
    /\ budget_medians = MediansFull
    /\ Feature(result, "log_budget") = 15425

\* C12: runtimeMinutes_capped is min(runtimeMinutes, 300): a runtime of at
\* most 300 is unchanged, a runtime above 300 gives 300, and a call on the
\* capped value of the call before gives that value again.
C12_RuntimeCap ==
    result.status = "ok" =>
        LET r == movie_data.runtimeMinutes
            c == Feature(result, "runtimeMinutes_capped")
        IN  /\ c <= r /\ c <= 300 /\ c \in {r, 300}
            /\ r <= 300 => c = r
            /\ r > 300 => c = 300
            /\ r = 1000 => c = 300
            /\ r = 50 => c = 50
            /\ (changed = "runtimeMinutes" /\ prev.status = "ok"
                    /\ r = Feature(prev, "runtimeMinutes_capped"))
                  => c = Feature(prev, "runtimeMinutes_capped")

\* the second call is made on 300, the capped value of the first
C12_Witness ==
    /\ result.status = "ok"
    /\ changed = "runtimeMinutes"
    /\ prev.status = "ok"
    /\ movie_data.runtimeMinutes = 300
    /\ Feature(prev, "runtimeMinutes_capped") = 300
    /\ Feature(result, "runtimeMinutes_capped") = 300

-----------------------------------------------------------------------------
(* SpecGenres: preprocess_single_movie on every comma-separated list of    *)
(* one to MaxGenres vocabulary genres.                                     *)

\* genres in a genres string
MaxGenres == 2

RECURSIVE JoinComma(_)
JoinComma(tokens) ==
    IF Len(tokens) = 1 THEN tokens[1]
    ELSE tokens[1] \o <<",">> \o JoinComma(Tail(tokens))

GenreLists ==
    {JoinComma([i \in 1..Len(ix) |-> VALID_GENRES[ix[i]]]) :
        ix \in UNION {[1..n -> 1..Len(VALID_GENRES)] : n \in 1..MaxGenres}}

InitGenres ==
    /\ movie_data \in {MovieData(2024, 120, 0, g) : g \in GenreLists}
    /\ overview = Some(<<"a">>)
    /\ budget = None
    /\ budget_medians = MediansFull
    /\ loadable = ARTIFACTS
    /\ result = Unset
    /\ prev = Unset
    /\ changed = "none"
    /\ calls = 0
    /\ raw = 0
    /\ prediction = Unset
    /\ SysIdle
    /\ ProcIdle

NextGenres == Encode1

SpecGenres == InitGenres /\ [][NextGenres]_vars

\* the genres listed in the genres argument
Listed == {Split(movie_data.genres)[i] : i \in 1..Len(Split(movie_data.genres))}

Str_Music == <<"M","u","s","i","c">>

\* C10 as claimed: each listed genre has indicator 1, every genre not
\* listed has indicator 0, and genre_count is the number of listed genres.
C10_OneHotExact ==
    result.status = "ok" =>
        /\ \A i \in 1..Len(VALID_GENRES) :
              Feature(result, GenreCol(VALID_GENRES[i])) =
                  (IF VALID_GENRES[i] \in Listed THEN 1 ELSE 0)
        /\ Feature(result, "genre_count") = Len(Split(movie_data.genres))

\* C10 amended: each listed genre has indicator 1; a genre not listed has
\* indicator 0, except Genre_Music, which is also 1 when Musical is listed;
\* genre_count is the number of listed genres.
C10_OneHotSubstring ==
    result.status = "ok" =>
        /\ \A i \in 1..Len(VALID_GENRES) :
              Feature(result, GenreCol(VALID_GENRES[i])) =
                  (IF \/ VALID_GENRES[i] \in Listed
                      \/ (VALID_GENRES[i] = Str_Music /\ Str_Musical \in Listed)
                   THEN 1 ELSE 0)
        /\ Feature(result, "genre_count") = Len(Split(movie_data.genres))
        /\ movie_data.genres = Str_ActionSciFi =>
              /\ Feature(result, "Genre_Action") = 1
              /\ Feature(result, "Genre_Sci-Fi") = 1
              /\ Feature(result, "genre_count") = 2
              /\ \A c \in GenreColumns \ {"Genre_Action", "Genre_Sci-Fi"} :
                    Feature(result, c) = 0

C10_Witness ==
    /\ result.status = "ok"
    /\ movie_data.genres = Str_ActionSciFi
    /\ Feature(result, "genre_count") = 2

-----------------------------------------------------------------------------
(* SpecDecade: preprocess_single_movie on every start year of a range of   *)
(* release years and of a range around zero.                               *)

\* last start year drawn
MaxYear == 2030

Years == (-11..11) \cup (1895..MaxYear)

InitDecade ==
    /\ movie_data \in {MovieData(y, 90, 0, Str_Drama) : y \in Years}
    /\ overview = Some(<<"a">>)
    /\ budget \in {None, Some(1000000)}
    /\ budget_medians = MediansFull
    /\ loadable = ARTIFACTS
    /\ result = Unset
    /\ prev = Unset
    /\ changed = "none"
    /\ calls = 0
    /\ raw = 0
    /\ prediction = Unset
    /\ SysIdle
    /\ ProcIdle

NextDecade == Encode1

SpecDecade == InitDecade /\ [][NextDecade]_vars

\* C13: decade is floor(startYear / 10) * 10: a multiple of 10 with
\* decade <= startYear <= decade + 9; 2024 gives 2020 and 1999 gives 1990.
C13_DecadeFloor ==
    result.status = "ok" =>
        LET y == movie_data.startYear
            d == Feature(result, "decade")
        IN  /\ d % 10 = 0
            /\ d <= y /\ y <= d + 9
            /\ y = 2024 => d = 2020
            /\ y = 1999 => d = 1990
            /\ y = -1 => d = -10

C13_Witness ==
    /\ result.status = "ok"
    /\ movie_data.startYear = 1999
    /\ Feature(result, "decade") = 1990

(* lists of vocabulary genres: other letter case, a vocabulary name inside *)
(* a longer word, the empty string.                                        *)

\* pieces concatenated into a genres string
MaxPieces == 3

GenrePieces ==
    { <<"W","a","r">>, <<"w","a","r">>, <<"M","u","s","i","c">>,
      <<"a","l">>, <<",">>, <<"s">> }

RECURSIVE Concat(_)
Concat(pieces) == IF pieces = <<>> THEN <<>> ELSE Head(pieces) \o Concat(Tail(pieces))

GenreStrings ==
    {Concat(ps) : ps \in UNION {[1..n -> GenrePieces] : n \in 0..MaxPieces}}

InitSubstring ==
    /\ movie_data \in {MovieData(1999, 90, 0, g) : g \in GenreStrings}
    /\ overview = Some(<<"a">>)
    /\ budget = None
    /\ budget_medians = MediansFull
    /\ loadable = ARTIFACTS
    /\ result = Unset
    /\ prev = Unset
    /\ changed = "none"
    /\ calls = 0
    /\ raw = 0
    /\ prediction = Unset
    /\ SysIdle
    /\ ProcIdle

NextSubstring == Encode1

SpecSubstring == InitSubstring /\ [][NextSubstring]_vars

\* sub occurs in s: s is some text, then sub, then some text
Occurs(sub, s) ==
    \E i \in 0..Len(s) : \E j \in i..Len(s) : SubSeq(s, i + 1, j) = sub

Str_War == <<"W","a","r">>

\* C11: for every genres string and every vocabulary genre g, Genre_g is 1
\* if and only if the name of g occurs in the genres string as a substring,
\* letter case included; whether g is one of the comma-separated tokens
\* does not matter.
C11_SubstringMembership ==
    result.status = "ok" =>
        /\ \A i \in 1..Len(VALID_GENRES) :
              Feature(result, GenreCol(VALID_GENRES[i])) = 1
                  <=> Occurs(VALID_GENRES[i], movie_data.genres)
        /\ \A c \in GenreColumns : Feature(result, c) \in {0, 1}
        /\ (Str_Musical \in Listed /\ Str_Music \notin Listed)
              => Feature(result, "Genre_Music") = 1
        /\ (\A i \in 1..Len(movie_data.genres) : movie_data.genres[i] # "W")
              => Feature(result, "Genre_War") = 0

\* "Wars": War is no token of the list and Genre_War is 1
C11_Witness ==
    /\ result.status = "ok"
    /\ movie_data.genres = <<"W","a","r","s">>
    /\ Str_War \notin Listed
    /\ Feature(result, "Genre_War") = 1

-----------------------------------------------------------------------------
(* src/floportop/model.py and the /predict handler of src/apps/api/app.py   *)

\* load_model(): the artifact, or the exception of open / pickle.load
load_model(avail) == IF "model" \in avail THEN Ok("model") ELSE Raise("ArtifactError")

\* np.clip(prediction, 1.0, 10.0), in thousandths
Clip(x, lo, hi) == IF x < lo THEN lo ELSE IF x > hi THEN hi ELSE x

\* predict(features, model=None); rawOut is model.predict(features)
predict(features, avail, rawOut) ==
    IF load_model(avail).status # "ok" THEN load_model(avail)
    ELSE Ok(rawOut)

\* predict_movie(movie_data, overview, budget, model=None)
predict_movie(md, ov, b, medians, avail, rawOut) ==
    IF load_model(avail).status # "ok" THEN load_model(avail)
    ELSE LET features == preprocess_single_movie(md, ov, b, medians, avail)
         IN  IF features.status # "ok" THEN features
             ELSE Ok(Clip(rawOut, 1000, 10000))

\* round(rating, 2) on thousandths; a half goes to the even hundredth
Round2(x) ==
    LET q == x \div 10
        r == x % 10
    IN  IF r < 5 \/ (r = 5 /\ q % 2 = 0) THEN q * 10 ELSE (q + 1) * 10

Http(code) == [status |-> code]

\* isinstance(e, ValueError): json.JSONDecodeError is a subclass of ValueError
IsValueError(e) == e \in {"ValueError", "JSONDecodeError"}

\* GET /predict; overview is a required str parameter
api_predict(md, ov, b, medians, avail, rawOut) ==
    IF ~Truthy(Get(ov)) \/ ~Truthy(Strip(Get(ov))) THEN Http(400)
    ELSE LET rating == predict_movie(md, ov, b, medians, avail, rawOut)
         IN  CASE rating.status = "ok" ->
                    [status |-> 200, predicted_rating |-> Round2(rating.value)]
               [] IsValueError(rating.status) -> Http(400)
               [] OTHER -> Http(500)

-----------------------------------------------------------------------------
(* SpecPredict: the encoder and the prediction service on every overview   *)
(* of up to MaxOverviewLen characters, every raw model output and every    *)
(* single missing artifact.                                                *)

MaxOverviewLen == 2

OverviewChars == {" ", "\t", "a"}

Overviews ==
    {None} \cup
    {Some(s) : s \in UNION {[1..n -> OverviewChars] : n \in 0..MaxOverviewLen}}

\* model.predict(features)[0], in thousandths
RawOutputs == {-3000, 999, 1000, 7234, 10000, 10001, 12000}

Loadables == {ARTIFACTS} \cup {ARTIFACTS \ {a} : a \in ARTIFACTS}

InitPredict ==
    /\ movie_data = MovieData(2024, 148, 0, Str_ActionSciFi)
    /\ overview \in Overviews
    /\ budget \in {None, Some(200000000)}
    /\ loadable \in Loadables
    /\ budget_medians \in IF "budget_medians" \in loadable THEN {MediansFull}
                          ELSE {MediansFull, MediansNotJson}
    /\ result = Unset
    /\ prev = Unset
    /\ changed = "none"
    /\ calls = 0
    /\ raw \in RawOutputs
    /\ prediction = Unset
    /\ SysIdle
    /\ ProcIdle

\* predict(features) on the features the encoder returned
Predict ==
    /\ result.status = "ok"
    /\ prediction' = [op |-> "predict", ret |-> predict(result.value, loadable, raw)]
    /\ UNCHANGED <<movie_data, overview, budget, budget_medians, loadable,
                   result, prev, changed, calls, raw, sysVars, memoVars, procVars>>

PredictMovie ==
    /\ prediction' = [op |-> "predict_movie",
                      ret |-> predict_movie(movie_data, overview, budget,
                                            budget_medians, loadable, raw)]
    /\ UNCHANGED <<movie_data, overview, budget, budget_medians, loadable,
                   result, prev, changed, calls, raw, sysVars, memoVars, procVars>>

ApiPredict ==
    /\ overview # None
    /\ prediction' = [op |-> "api_predict",
                      ret |-> api_predict(movie_data, overview, budget,
                                          budget_medians, loadable, raw)]
    /\ UNCHANGED <<movie_data, overview, budget, budget_medians, loadable,
                   result, prev, changed, calls, raw, sysVars, memoVars, procVars>>

NextPredict ==
    \/ Encode1
    \/ Predict
    \/ PredictMovie
    \/ ApiPredict

SpecPredict == InitPredict /\ [][NextPredict]_vars

\* an overview that is None, empty or made of whitespace only
Blank(ov) == ov = None \/ \A i \in 1..Len(Get(ov)) : Get(ov)[i] \in {" ", "\t", "\n"}

\* C3: the encoder raises ValueError for every overview that is None, empty
\* or whitespace-only, whatever artifacts can be loaded, and the handler
\* answers 400; a one-character overview that is not whitespace is never
\* rejected and is encoded when the artifacts load.
C3_OverviewValidation ==
    /\ (result # Unset /\ Blank(overview)) => result.status = "ValueError"
    /\ (result # Unset /\ ~Blank(overview)) => result.status # "ValueError"
    /\ (result # Unset /\ ~Blank(overview) /\ Len(Get(overview)) = 1
          /\ ARTIFACTS \ {"model"} \subseteq loadable) => result.status = "ok"
    /\ (prediction # Unset /\ prediction.op = "api_predict" /\ Blank(overview))
          => prediction.ret = Http(400)

C3_Witness ==
    /\ overview = Some(<<" ", "\t">>)
    /\ result.status = "ValueError"
    /\ prediction # Unset
    /\ prediction.op = "api_predict"
    /\ prediction.ret = Http(400)

\* C4 as claimed: the rating a predict operation returns is the raw model
\* output clipped into [1.0, 10.0], for predict as for predict_movie.
C4_PredictClamped ==
    (prediction # Unset /\ prediction.op \in {"predict", "predict_movie"}
        /\ prediction.ret.status = "ok") =>
        /\ prediction.ret.value >= 1000
        /\ prediction.ret.value <= 10000
        /\ prediction.ret.value = Clip(raw, 1000, 10000)

\* a request whose overview is valid and one of whose artifacts does not load
ArtifactFailure == ~Blank(overview) /\ loadable # ARTIFACTS

\* C16 as claimed: a prediction request that fails because an artifact
\* cannot be loaded is never answered with the outcome of an invalid
\* request: /predict does not answer 400 and predict_movie raises no
\* ValueError.
C16_ArtifactFailureDistinct ==
    (prediction # Unset /\ ArtifactFailure) =>
        /\ prediction.op = "api_predict" => prediction.ret = Http(500)
        /\ prediction.op = "predict_movie" =>
              /\ prediction.ret.status # "ok"
              /\ ~IsValueError(prediction.ret.status)

\* C25 as claimed: predict_movie raises ValueError for every overview that
\* is None, empty or whitespace-only, whether or not the model artifacts can
\* be loaded, and returns no prediction.
C25_PredictMovieValidates ==
    (prediction # Unset /\ prediction.op = "predict_movie" /\ Blank(overview)) =>
        prediction.ret.status = "ValueError"

-----------------------------------------------------------------------------
(* src/floportop/movie_search.py: the corpus                                *)
(*                                                                         *)
(* dataset is the content of the four raw files of DATA_DIR, each a        *)
(* sequence of rows.  A cell of a JSON column is NaN (no value), a string  *)
(* that ast.literal_eval parses (Json) or a string it rejects (Malformed). *)
(* Names, titles and overviews are texts; the labels of embedding_text are *)
(* fragments of one element each.  The plot-arc file is absent, so         *)
(* plot_arc is the empty text in every row.                                *)

NaN == [kind |-> "nan"]
Json(v) == [kind |-> "json", value |-> v]
Malformed == [kind |-> "malformed"]
Str(v) == [kind |-> "str", value |-> v]

Digits == {"0", "1", "2", "3", "4", "5", "6", "7", "8", "9"}

\* str.isnumeric()
IsNumeric(t) == t # <<>> /\ \A i \in 1..Len(t) : t[i] \in Digits

DigitValue(c) == CHOOSE d \in 0..9 : ToString(d) = c

\* int(t) of a text of digits
RECURSIVE ToInt(_)
ToInt(t) ==
    IF t = <<>> THEN 0
    ELSE 10 * ToInt(SubSeq(t, 1, Len(t) - 1)) + DigitValue(t[Len(t)])

\* f"tt{x:07d}"
ImdbId(x) ==
    LET zeros == CASE x < 10 -> "000000" [] x < 100 -> "00000"
                   [] x < 1000 -> "0000" [] x < 10000 -> "000"
                   [] x < 100000 -> "00" [] x < 1000000 -> "0" [] OTHER -> ""
    IN  <<"tt" \o zeros \o ToString(x)>>

\* parse_json_column(value)
parse_json_column(value) == IF value.kind = "json" THEN value.value ELSE <<>>

\* extract_names(items)
extract_names(items) == [i \in 1..Len(items) |-> items[i].name]

\* x[:n]
Take(x, n) == SubSeq(x, 1, IF Len(x) < n THEN Len(x) ELSE n)

\* [item["name"] for item in x if item.get("job") == "Director"]
Directors(crew) ==
    LET kept == SelectSeq(crew, LAMBDA item : item.job = "Director")
    IN  [i \in 1..Len(kept) |-> kept[i].name]

\* join_list(lst): ", ".join(map(str, lst))
RECURSIVE join_list(_)
join_list(lst) ==
    IF lst = <<>> THEN <<>>
    ELSE IF Len(lst) = 1 THEN lst[1]
    ELSE lst[1] \o <<", ">> \o join_list(Tail(lst))

\* create_embedding_text(row)
create_embedding_text(row) ==
    <<"Overview: ">> \o row.overview
    \o <<"\n", "Genres: ">> \o join_list(row.genre_names)
    \o <<"\n", "Keywords: ">> \o join_list(row.keyword_names)
    \o <<"\n", "Plot Arc: ">> \o row.plot_arc
    \o <<"\n", "Cast: ">> \o join_list(row.cast_top)
    \o <<"\n", "Director: ">> \o join_list(row.directors)

\* embedding_text of src/api/movie_search.py, with its Title section
embedding_text_titled(row) ==
    <<"Title: ">> \o row.title
    \o <<"\n", "Overview: ">> \o row.overview
    \o <<"\n", "Genres: ">> \o join_list(row.genre_names)
    \o <<"\n", "Keywords: ">> \o join_list(row.keyword_names)
    \o <<"\n", "Cast: ">> \o join_list(row.cast_top)
    \o <<"\n", "Director: ">> \o join_list(row.directors)

RECURSIVE Flatten(_)
Flatten(ss) == IF ss = <<>> THEN <<>> ELSE Head(ss) \o Flatten(Tail(ss))

\* an inner join: the left rows without a match are lost
LeftMerge_inner(left, right, lkey, rkey, cols) ==
    Flatten([i \in 1..Len(left) |->
        LET ms == SelectSeq(right, LAMBDA r : r[rkey] = left[i][lkey])
        IN  [j \in 1..Len(ms) |-> [c \in cols |-> ms[j][c]] @@ left[i]]])

\* left.merge(right, left_on=lkey, right_on=rkey, how="left"): the left rows
\* in order, each once per matching right row, with NaN in the columns of
\* right when no row matches
LeftMerge(left, right, lkey, rkey, cols) ==
    Flatten([i \in 1..Len(left) |->
        LET ms == SelectSeq(right, LAMBDA r : r[rkey] = left[i][lkey])
        IN  IF ms = <<>> THEN << [c \in cols |-> NaN] @@ left[i] >>
            ELSE [j \in 1..Len(ms) |-> [c \in cols |-> ms[j][c]] @@ left[i]]])

\* column.astype(int) on the id column of a file
AsTypeInt(rows) == [i \in 1..Len(rows) |-> [rows[i] EXCEPT !.id = ToInt(rows[i].id)]]

\* the record of the corpus made from a merged row
MovieRecord(r) ==
    LET row == [id |-> r.id,
                imdbId |-> r.imdbId,
                title |-> r.title,
                overview |-> r.overview,
                genre_names |-> extract_names(parse_json_column(r.genres)),
                keyword_names |-> extract_names(parse_json_column(r.keywords)),
                cast_top |-> extract_names(Take(parse_json_column(r.cast), 10)),
                directors |-> Directors(parse_json_column(r.crew)),
                plot_arc |-> <<>>]
    IN  [embedding_text |-> create_embedding_text(row)] @@ row

\* load_movie_data, "Build from scratch": the frame, or the exception raised
\* before anything is written
BuildCorpus(ds) ==
    IF \A i \in 1..Len(ds.movies) : IsNumeric(ds.movies[i].id)
    THEN Raise("AttributeError")
    ELSE IF \E i \in 1..Len(ds.credits) : ~IsNumeric(ds.credits[i].id)
    THEN Raise("ValueError")
    ELSE IF \E i \in 1..Len(ds.keywords) : ~IsNumeric(ds.keywords[i].id)
    THEN Raise("ValueError")
    ELSE
    LET movies == AsTypeInt(SelectSeq(ds.movies, LAMBDA m : IsNumeric(m.id)))
        credits == AsTypeInt(ds.credits)
        keywords == AsTypeInt(ds.keywords)
        links == [i \in 1..Len(ds.links) |->
                     [ds.links[i] EXCEPT !.imdbId = Str(ImdbId(ds.links[i].imdbId))]]
        df1 == LeftMerge(movies, credits, "id", "id", {"cast", "crew"})
        df2 == LeftMerge(df1, keywords, "id", "id", {"keywords"})
        df3 == LeftMerge(df2, links, "id", "tmdbId", {"imdbId"})
    IN  Ok([i \in 1..Len(df3) |-> MovieRecord(df3[i])])

\* the cache removed before the build, so that a failed build leaves none
load_movie_data_unlink(force_rebuild, pkl, ds) ==
    IF ~force_rebuild /\ pkl # None
    THEN [ret |-> Ok(Get(pkl)), pkl |-> pkl]
    ELSE LET built == BuildCorpus(ds)
         IN  IF built.status # "ok" THEN [ret |-> built, pkl |-> None]
             ELSE [ret |-> built, pkl |-> Some(built.value)]

\* load_movie_data(force_rebuild): the frame returned, or the exception, and
\* movies.pkl after
load_movie_data(force_rebuild, pkl, ds) ==
    IF ~force_rebuild /\ pkl # None
    THEN [ret |-> Ok(Get(pkl)), pkl |-> pkl]
    ELSE LET built == BuildCorpus(ds)
         IN  IF built.status # "ok" THEN [ret |-> built, pkl |-> pkl]
             ELSE [ret |-> built, pkl |-> Some(built.value)]

-----------------------------------------------------------------------------
(* src/floportop/movie_search.py: the index and the search                  *)
(*                                                                         *)
(* An index is the sequence of the vectors added to faiss.IndexFlatIP, row *)
(* i at id i - 1.  A unit vector is a pair scaled by 5, a score is the     *)
(* inner product in thousandths.                                           *)

UnitVectors == << <<5, 0>>, <<4, 3>>, <<3, 4>>, <<0, 5>> >>

\* model.encode([text], normalize_embeddings=True)[0] of the search model
SearchEncode(text) == UnitVectors[(Encode(text) % Len(UnitVectors)) + 1]

\* the inner product of two unit vectors, in thousandths
Score(q, v) == (q[1] * v[1] + q[2] * v[2]) * 40

\* the embeddings build_index adds to the index, in row order
Embeddings(movies_df) ==
    [i \in 1..Len(movies_df) |-> SearchEncode(movies_df[i].embedding_text)]

\* build_index(movies_df): the index returned and index.faiss after
build_index(movies_df, idx, ok) ==
    IF ~ok THEN [ret |-> Raise("ArtifactError"), idx |-> idx]
    ELSE [ret |-> Ok(Embeddings(movies_df)), idx |-> Some(Embeddings(movies_df))]

\* an index where a missing artifact should give None
load_index_empty(idx) == IF idx = None THEN Some(<<>>) ELSE Some(Get(idx))

\* load_index(): None when index.faiss does not exist
load_index(idx) == IF idx = None THEN None ELSE Some(Get(idx))

\* the ids by increasing score
RECURSIVE Ranked_ascending(_, _, _)
Ranked_ascending(index, q, ids) ==
    IF ids = {} THEN <<>>
    ELSE LET worst == CHOOSE i \in ids : \A j \in ids :
                          \/ Score(q, index[i + 1]) < Score(q, index[j + 1])
                          \/ (Score(q, index[i + 1]) = Score(q, index[j + 1]) /\ i <= j)
         IN  <<worst>> \o Ranked_ascending(index, q, ids \ {worst})

\* the ids of an index in rank order: higher score first, lower id first
\* among equal scores
RECURSIVE Ranked(_, _, _)
Ranked(index, q, ids) ==
    IF ids = {} THEN <<>>
    ELSE LET best == CHOOSE i \in ids : \A j \in ids :
                         \/ Score(q, index[i + 1]) > Score(q, index[j + 1])
                         \/ (Score(q, index[i + 1]) = Score(q, index[j + 1]) /\ i <= j)
         IN  <<best>> \o Ranked(index, q, ids \ {best})

\* the entry faiss returns where the index has fewer than k vectors
PadHit == [id |-> -1, score |-> -2147483647]

\* index.search(q, k): k entries, the stored vectors by rank, then padding
IndexSearch(index, q, k) ==
    LET ranked == Ranked(index, q, 0..(Len(index) - 1))
    IN  [n \in 1..k |->
            IF n <= Len(ranked)
            THEN [id |-> ranked[n], score |-> Score(q, index[ranked[n] + 1])]
            ELSE PadHit]

\* whether movies_df.iloc accepts the position
InBounds(movies_df, pos) == pos < Len(movies_df) /\ -pos <= Len(movies_df)

\* movies_df.iloc[pos]: a negative position counts from the end
Iloc(movies_df, pos) ==
    IF pos >= 0 THEN movies_df[pos + 1] ELSE movies_df[Len(movies_df) + pos + 1]

\* the rows at the positions the index returned, each with its score
Results(movies_df, hits) ==
    [n \in 1..Len(hits) |->
        [id |-> Iloc(movies_df, hits[n].id).id,
         pos |-> hits[n].id,
         score |-> hits[n].score]]

\* search(query, k, force_rebuild): the outcome and the two files after
search(query, k, force_rebuild, pkl, idx, ds, ok) ==
    LET lm == load_movie_data(force_rebuild, pkl, ds)
        movies_df == lm.ret.value
        built == build_index(movies_df, idx, ok)
        rebuild == force_rebuild \/ idx = None
        idx2 == IF rebuild THEN built.idx ELSE idx
    IN  IF lm.ret.status # "ok"
        THEN [ret |-> lm.ret, pkl |-> lm.pkl, idx |-> idx]
        ELSE IF rebuild /\ built.ret.status # "ok"
        THEN [ret |-> built.ret, pkl |-> lm.pkl, idx |-> idx2]
        ELSE IF ~ok
        THEN [ret |-> Raise("ArtifactError"), pkl |-> lm.pkl, idx |-> idx2]
        ELSE
        LET index == IF rebuild THEN built.ret.value ELSE Get(load_index(idx))
            hits == IndexSearch(index, SearchEncode(query), k)
        IN  IF \E n \in 1..k : ~InBounds(movies_df, hits[n].id)
            THEN [ret |-> Raise("IndexError"), pkl |-> lm.pkl, idx |-> idx2]
            ELSE [ret |-> [status |-> "ok", movies_df |-> movies_df,
                           index |-> index,
                           results |-> Results(movies_df, hits)],
                  pkl |-> lm.pkl, idx |-> idx2]

-----------------------------------------------------------------------------
(* The search handlers of src/apps/api/app.py *)

\* an absent index answered with an empty result list
similar_film_empty_list(query, k, pkl, idx, ds, ok) ==
    IF ~Truthy(Strip(query))
    THEN [ret |-> Http(400), pkl |-> pkl, idx |-> idx]
    ELSE IF ~ok
    THEN [ret |-> Http(500), pkl |-> pkl, idx |-> idx]
    ELSE
    LET lm == load_movie_data(FALSE, pkl, ds)
        movies_df == lm.ret.value
        search_index == IF idx = None THEN <<>> ELSE Get(idx)
        hits == IF idx = None THEN <<>>
                ELSE IndexSearch(search_index, SearchEncode(query), k)
    IN  IF lm.ret.status # "ok"
        THEN [ret |-> Http(500), pkl |-> lm.pkl, idx |-> idx]
        ELSE IF \E n \in 1..Len(hits) : ~InBounds(movies_df, hits[n].id)
        THEN [ret |-> Http(500), pkl |-> lm.pkl, idx |-> idx]
        ELSE [ret |-> [status |-> 200, movies_df |-> movies_df,
                       index |-> search_index,
                       results |-> Results(movies_df, hits)],
              pkl |-> lm.pkl, idx |-> idx]

\* GET /similar-film
similar_film(query, k, pkl, idx, ds, ok) ==
    IF ~Truthy(Strip(query))
    THEN [ret |-> Http(400), pkl |-> pkl, idx |-> idx]
    ELSE IF load_index(idx) = None
    THEN [ret |-> Http(503), pkl |-> pkl, idx |-> idx]
    ELSE IF ~ok
    THEN [ret |-> Http(500), pkl |-> pkl, idx |-> idx]
    ELSE
    LET search_index == Get(load_index(idx))
        lm == load_movie_data(FALSE, pkl, ds)
        movies_df == lm.ret.value
        hits == IndexSearch(search_index, SearchEncode(query), k)
    IN  IF lm.ret.status # "ok"
        THEN [ret |-> Http(500), pkl |-> lm.pkl, idx |-> idx]
        ELSE IF \E n \in 1..k : ~InBounds(movies_df, hits[n].id)
        THEN [ret |-> Http(500), pkl |-> lm.pkl, idx |-> idx]
        ELSE [ret |-> [status |-> 200, movies_df |-> movies_df,
                       index |-> search_index,
                       results |-> Results(movies_df, hits)],
              pkl |-> lm.pkl, idx |-> idx]

\* POST /rebuild-index:  load_index() or build_index(movies_df)
rebuild_index(pkl, idx, ds, ok) ==
    LET lm == load_movie_data(FALSE, pkl, ds)
        movies_df == lm.ret.value
        built == build_index(movies_df, idx, ok)
    IN  IF lm.ret.status # "ok"
        THEN [ret |-> Http(500), pkl |-> lm.pkl, idx |-> idx]
        ELSE IF load_index(idx) # None
        THEN [ret |-> [status |-> 200, movies_df |-> movies_df,
                       index_size |-> Len(Get(load_index(idx)))],
              pkl |-> lm.pkl, idx |-> idx]
        ELSE IF built.ret.status # "ok"
        THEN [ret |-> Http(500), pkl |-> lm.pkl, idx |-> idx]
        ELSE [ret |-> [status |-> 200, movies_df |-> movies_df,
                       index_size |-> Len(built.ret.value)],
              pkl |-> lm.pkl, idx |-> built.idx]

-----------------------------------------------------------------------------
(* Spec: the search operations over the files of one deployment *)

\* largest k of a search
MaxK == 3

\* rows of movies_metadata.csv: three movies, and a row whose id cell holds
\* a date, as the rows of the Kaggle file that are shifted by one column
MovieA == [id |-> <<"1">>, title |-> <<"A">>, overview |-> <<"a">>,
           genres |-> Json(<< [name |-> <<"g">>] >>)]
MovieB == [id |-> <<"2">>, title |-> <<"B">>, overview |-> <<"b">>,
           genres |-> Json(<<>>)]
MovieC == [id |-> <<"3">>, title |-> <<"C">>, overview |-> <<"b", "a">>,
           genres |-> NaN]
MovieShifted == [id |-> <<"1", "9", "9", "7", "-", "0", "8", "-", "2", "0">>,
                 title |-> <<"X">>, overview |-> <<"a">>, genres |-> NaN]
\* a row whose genres cell is a string ast.literal_eval rejects
MovieMalformed == [id |-> <<"4">>, title |-> <<"D">>, overview |-> <<"a", "b">>,
                   genres |-> Malformed]

\* rows of credits.csv, keywords.csv and links.csv
CreditsA == [id |-> <<"1">>,
             cast |-> Json(<< [name |-> <<"n">>], [name |-> <<"m">>] >>),
             crew |-> Json(<< [name |-> <<"m">>, job |-> "Director"],
                              [name |-> <<"n">>, job |-> "Writer"] >>)]
CreditsBadKey == [id |-> <<"x">>, cast |-> Json(<<>>), crew |-> Json(<<>>)]
KeywordsB == [id |-> <<"2">>, keywords |-> Json(<< [name |-> <<"k">>] >>)]
KeywordsBadKey == [id |-> <<"x">>, keywords |-> Json(<<>>)]
LinksA == [tmdbId |-> 1, imdbId |-> 114709]

Dataset(movies, credits) ==
    [movies |-> movies, credits |-> credits,
     keywords |-> <<KeywordsB>>, links |-> <<LinksA>>]

\* the versions of the raw files: two orders of the same movies, a third
\* movie without any enrichment, a credits row that occurs twice, and a
\* credits row whose key is no integer
DatasetAB == Dataset(<<MovieA, MovieShifted, MovieB>>, <<CreditsA>>)
DatasetBA == Dataset(<<MovieB, MovieA, MovieShifted>>, <<CreditsA>>)
DatasetABC == Dataset(<<MovieA, MovieB, MovieShifted, MovieC>>, <<CreditsA>>)
DatasetDup == Dataset(<<MovieA, MovieShifted, MovieB>>, <<CreditsA, CreditsA>>)
DatasetBadKey == Dataset(<<MovieA, MovieShifted, MovieB>>, <<CreditsA, CreditsBadKey>>)

DatasetVersions == {DatasetAB, DatasetBA, DatasetABC}

\* a keywords row whose key is no integer, a metadata row with a malformed
\* cell, and a metadata file all of whose ids are integers
DatasetBadKeyword == [DatasetAB EXCEPT !.keywords = <<KeywordsB, KeywordsBadKey>>]
DatasetMalformed == Dataset(<<MovieA, MovieShifted, MovieMalformed>>, <<CreditsA>>)
DatasetNumeric == Dataset(<<MovieA, MovieB>>, <<CreditsA>>)

CorpusVersions ==
    DatasetVersions \cup {DatasetDup, DatasetBadKey, DatasetBadKeyword,
                          DatasetMalformed, DatasetNumeric}

Queries == {<<>>, <<" ">>, <<"a">>, <<"a", " ", "b">>}

\* the embedding_text of the rows of a corpus
RowTexts(pkl) ==
    IF pkl = None THEN {}
    ELSE {Get(pkl)[i].embedding_text : i \in 1..Len(Get(pkl))}

EncIdle ==
    /\ movie_data = MovieData(2024, 148, 0, Str_Drama)
    /\ overview = None
    /\ budget = None
    /\ budget_medians = MediansFull
    /\ loadable = ARTIFACTS
    /\ result = Unset
    /\ prev = Unset
    /\ changed = "none"
    /\ calls = 0
    /\ raw = 0
    /\ prediction = Unset

Init ==
    /\ dataset \in DatasetVersions
    /\ movies_pkl = None
    /\ index_faiss = None
    /\ model_ok = TRUE
    /\ response = Unset
    /\ EncIdle
    /\ MemoIdle
    /\ ProcIdle

\* the raw source files are replaced by another version of the dataset
UpdateDataset ==
    /\ dataset' \in DatasetVersions \ {dataset}
    /\ UNCHANGED <<movies_pkl, index_faiss, model_ok, response, encVars, memoVars, procVars>>

\* the embedding model becomes loadable or stops being so
SetModelAvailable ==
    /\ model_ok' = ~model_ok
    /\ UNCHANGED <<dataset, movies_pkl, index_faiss, response, encVars, memoVars, procVars>>

\* what an operation leaves behind: its outcome, with index.faiss as the
\* operation found it, and the two files
Done(op, args, before, out) ==
    /\ response' = [op |-> op, args |-> args, index_before |-> before,
                    ret |-> out.ret]
    /\ movies_pkl' = out.pkl
    /\ index_faiss' = out.idx
    /\ UNCHANGED <<dataset, model_ok, encVars, memoVars, procVars>>

\* load_movie_data(force_rebuild), with movies.pkl and the raw files as the
\* call found them
LoadMovieData ==
    \E force \in BOOLEAN :
        LET lm == load_movie_data(force, movies_pkl, dataset)
        IN  Done("load_movie_data",
                 [force_rebuild |-> force, cache_before |-> movies_pkl,
                  sources |-> dataset],
                 index_faiss,
                 [ret |-> lm.ret, pkl |-> lm.pkl, idx |-> index_faiss])

\* build_index(load_movie_data())
BuildIndex ==
    LET lm == load_movie_data(FALSE, movies_pkl, dataset)
        built == build_index(lm.ret.value, index_faiss, model_ok)
    IN  Done("build_index", <<>>, index_faiss,
             IF lm.ret.status # "ok"
             THEN [ret |-> lm.ret, pkl |-> lm.pkl, idx |-> index_faiss]
             ELSE [ret |-> built.ret, pkl |-> lm.pkl, idx |-> built.idx])

LoadIndex ==
    Done("load_index", <<>>, index_faiss,
         [ret |-> Ok(load_index(index_faiss)), pkl |-> movies_pkl, idx |-> index_faiss])

Search ==
    \E query \in Queries, k \in 1..MaxK, force \in BOOLEAN :
        Done("search", [query |-> query, k |-> k, force_rebuild |-> force],
             index_faiss,
             search(query, k, force, movies_pkl, index_faiss, dataset, model_ok))

SimilarFilm ==
    \E query \in Queries, k \in 1..MaxK :
        Done("similar_film", [query |-> query, k |-> k], index_faiss,
             similar_film(query, k, movies_pkl, index_faiss, dataset, model_ok))

RebuildIndex ==
    Done("rebuild_index", <<>>, index_faiss,
         rebuild_index(movies_pkl, index_faiss, dataset, model_ok))

Next ==
    \/ UpdateDataset
    \/ SetModelAvailable
    \/ LoadMovieData
    \/ BuildIndex
    \/ LoadIndex
    \/ Search
    \/ SimilarFilm
    \/ RebuildIndex

Spec == Init /\ [][Next]_vars

-----------------------------------------------------------------------------
(* SpecCorpus: the corpus build over every version of the raw files, and   *)
(* searches whose query is the embedding_text of a row of the corpus.      *)

InitCorpus ==
    /\ dataset \in CorpusVersions
    /\ movies_pkl = None
    /\ index_faiss = None
    /\ model_ok = TRUE
    /\ response = Unset
    /\ EncIdle
    /\ MemoIdle
    /\ ProcIdle

ReplaceDataset ==
    /\ dataset' \in CorpusVersions \ {dataset}
    /\ UNCHANGED <<movies_pkl, index_faiss, model_ok, response, encVars, memoVars, procVars>>

\* search(query, k, force_rebuild) with the text of a corpus row as query
SearchRow ==
    \E query \in RowTexts(movies_pkl), k \in 1..MaxK, force \in BOOLEAN :
        Done("search", [query |-> query, k |-> k, force_rebuild |-> force],
             index_faiss,
             search(query, k, force, movies_pkl, index_faiss, dataset, model_ok))

NextCorpus ==
    \/ ReplaceDataset
    \/ LoadMovieData
    \/ SearchRow

SpecCorpus == InitCorpus /\ [][NextCorpus]_vars

-----------------------------------------------------------------------------
(* SpecMemo: load_model called repeatedly in one process while the model   *)
(* files are written, replaced and removed.                                *)

\* load_model calls in one behaviour
MaxLoads == 4

\* every call unpickles the file
load_model_cached_reload(model_path, cache, files) ==
    LET path == IF model_path = None THEN DEFAULT_MODEL_PATH ELSE Get(model_path)
    IN  CASE files[path] = "absent" ->
               [path |-> path, ret |-> Raise("FileNotFoundError"),
                cache |-> cache, read |-> FALSE]
          [] files[path] = "corrupt" ->
               [path |-> path, ret |-> Raise("UnpicklingError"),
                cache |-> cache, read |-> FALSE]
          [] OTHER ->
               [path |-> path, ret |-> Ok(files[path]),
                cache |-> (path :> files[path]) @@ cache, read |-> TRUE]

\* load_model(model_path) with _model_cache: the key, the outcome, the cache
\* after, and whether the file was unpickled
load_model_cached(model_path, cache, files) ==
    LET path == IF model_path = None THEN DEFAULT_MODEL_PATH ELSE Get(model_path)
    IN  CASE path \in DOMAIN cache ->
               [path |-> path, ret |-> Ok(cache[path]),
                cache |-> cache, read |-> FALSE]
          [] files[path] = "absent" ->
               [path |-> path, ret |-> Raise("FileNotFoundError"),
                cache |-> cache, read |-> FALSE]
          [] files[path] = "corrupt" ->
               [path |-> path, ret |-> Raise("UnpicklingError"),
                cache |-> cache, read |-> FALSE]
          [] OTHER ->
               [path |-> path, ret |-> Ok(files[path]),
                cache |-> (path :> files[path]) @@ cache, read |-> TRUE]

InitMemo ==
    /\ model_files \in [ModelPaths -> FileContents]
    /\ model_cache = EmptyDict
    /\ reads = [p \in ModelPaths |-> 0]
    /\ loaded = Unset
    /\ loads = 0
    /\ EncIdle
    /\ dataset = <<>>
    /\ movies_pkl = None
    /\ index_faiss = None
    /\ model_ok = TRUE
    /\ response = Unset
    /\ ProcIdle

\* load_model(model_path), model_path None or a path
LoadModel ==
    /\ loads < MaxLoads
    /\ \E model_path \in {None} \cup {Some(p) : p \in ModelPaths} :
          LET out == load_model_cached(model_path, model_cache, model_files)
          IN  /\ model_cache' = out.cache
              /\ reads' = IF out.read THEN [reads EXCEPT ![out.path] = @ + 1]
                          ELSE reads
              /\ loaded' = [path |-> out.path, ret |-> out.ret]
    /\ loads' = loads + 1
    /\ UNCHANGED <<model_files, encVars, sysVars, procVars>>

\* a model file is written, replaced or removed
WriteModelFile ==
    /\ \E p \in ModelPaths :
          \E c \in FileContents \ {model_files[p]} :
              model_files' = [model_files EXCEPT ![p] = c]
    /\ UNCHANGED <<model_cache, reads, loaded, loads, encVars, sysVars, procVars>>

NextMemo ==
    \/ LoadModel
    \/ WriteModelFile

SpecMemo == InitMemo /\ [][NextMemo]_vars

-----------------------------------------------------------------------------
(* Claims on the search operations *)

SearchDone(op) == response # Unset /\ response.op = op

\* C5 as claimed: the index a search used holds, row for row, the
\* embeddings of the corpus the search resolved the positions in.
C5_IndexMatchesCorpus ==
    /\ (SearchDone("search") /\ response.ret.status = "ok") =>
          response.ret.index = Embeddings(response.ret.movies_df)
    /\ (SearchDone("similar_film") /\ response.ret.status = 200) =>
          response.ret.index = Embeddings(response.ret.movies_df)

\* the outcome that tells the caller to build the index
IndexNotBuilt == SearchDone("similar_film") /\ response.ret = Http(503)

\* a search request that passes the validation of its query
ValidSearch ==
    \/ SearchDone("search")
    \/ SearchDone("similar_film") /\ ~Blank(Some(response.args.query))

\* C6 as claimed: every similarity search requested while no index artifact
\* exists ends in the IndexNotBuilt condition.
C6_AbsentIndexSignalled ==
    (ValidSearch /\ response.index_before = None) => IndexNotBuilt

\* C6 amended: GET /similar-film with a non-blank query and no index
\* artifact answers 503 and no result list, and a 200 answer comes from an
\* existing index and lists k rows; search() of the library has no such
\* outcome: with no index artifact it builds the index from the corpus and
\* answers from it, or raises the error of the build.
C6_AbsentIndexEndpoint ==
    /\ (SearchDone("similar_film") /\ ~Blank(Some(response.args.query))
          /\ response.index_before = None) => response.ret = Http(503)
    /\ (SearchDone("similar_film") /\ response.ret.status = 200) =>
          /\ response.index_before # None
          /\ Len(response.ret.results) = response.args.k
    /\ (SearchDone("search") /\ response.index_before = None) =>
          \/ /\ response.ret.status = "ok"
             /\ response.ret.index = Embeddings(response.ret.movies_df)
             /\ Len(response.ret.results) = response.args.k
          \/ response.ret = Raise("ArtifactError")

C6_Witness ==
    /\ SearchDone("similar_film")
    /\ response.args.query = <<"a">>
    /\ response.index_before = None
    /\ response.ret = Http(503)

\* C7: load_index returns None, and raises nothing, exactly when
\* index.faiss does not exist; otherwise it returns the index of the file,
\* and None is not the empty index.
C7_LoadIndexNone ==
    SearchDone("load_index") =>
        /\ response.ret.status = "ok"
        /\ response.ret.value = None <=> response.index_before = None
        /\ response.ret.value # Some(<<>>)
        /\ response.index_before # None =>
              response.ret.value = Some(Get(response.index_before))

C7_Witness ==
    /\ SearchDone("load_index")
    /\ response.index_before = None
    /\ response.ret.value = None

\* C19 as claimed: a similarity search whose query is empty or made of
\* whitespace only fails as an invalid request, whatever the state of the
\* index, the embedding model and the corpus, and returns no result list:
\* GET /similar-film answers 400 and search() of the library raises.
C19_BlankQueryRejected ==
    /\ (SearchDone("similar_film") /\ Blank(Some(response.args.query))) =>
          response.ret = Http(400)
    /\ (SearchDone("search") /\ Blank(Some(response.args.query))) =>
          response.ret.status # "ok"

\* C20 as claimed: when POST /rebuild-index answers success, index.faiss
\* holds the index built from the corpus the call loaded, one vector per
\* row, also when index.faiss existed before the call.
C20_RebuildBuildsIndex ==
    (SearchDone("rebuild_index") /\ response.ret.status = 200) =>
        /\ index_faiss = Some(Embeddings(response.ret.movies_df))
        /\ response.ret.index_size = Len(response.ret.movies_df)

\* the result list of a search that returned one: at most min(k, N) entries,
\* entry n being the row at the position of rank n in the index queried,
\* a position of a stored vector, with the score of that position
FromIndex(ret, args) ==
    LET N == Len(ret.index)
        q == SearchEncode(args.query)
        ranked == Ranked(ret.index, q, 0..(N - 1))
    IN  /\ Len(ret.results) <= (IF args.k < N THEN args.k ELSE N)
        /\ \A n \in 1..Len(ret.results) :
              /\ ret.results[n].pos \in 0..(N - 1)
              /\ n <= N => /\ ret.results[n].pos = ranked[n]
                            /\ ret.results[n].score = Score(q, ret.index[ranked[n] + 1])
                            /\ ret.results[n].id = ret.movies_df[ranked[n] + 1].id

\* C28 as claimed: every entry of the result list of search() and of
\* GET /similar-film is the corpus row at a position 0..N-1 the index
\* returned, in rank order with its score, and the list has at most
\* min(k, N) entries, also when k is larger than the number N of vectors.
C28_ResultsFromIndex ==
    /\ (SearchDone("search") /\ response.ret.status = "ok") =>
          FromIndex(response.ret, response.args)
    /\ (SearchDone("similar_film") /\ response.ret.status = 200) =>
          FromIndex(response.ret, response.args)

-----------------------------------------------------------------------------
(* Claims on the corpus and on the round trip of the index *)

\* a search that answered from an index holding the embeddings of the
\* corpus it used, row for row
RoundTrip ==
    /\ SearchDone("search")
    /\ response.ret.status = "ok"
    /\ response.ret.index = Embeddings(response.ret.movies_df)

\* the rows of the corpus whose embedding_text is the query
QueriedRows ==
    {r \in 1..Len(response.ret.movies_df) :
        response.ret.movies_df[r].embedding_text = response.args.query}

\* C14 as claimed: a search on an index built from the corpus, whose query
\* is the text of corpus row r, returns r first with score 1, for every r.
C14_RoundTripSameRow ==
    RoundTrip =>
        \A r \in QueriedRows :
            /\ response.ret.results[1].pos = r - 1
            /\ response.ret.results[1].score = 1000

\* C14 amended: the first result has score 1 and is a row whose embedding
\* equals that of r; it is r itself when no other row of the corpus has
\* the embedding of r.
C14_RoundTripSameEmbedding ==
    RoundTrip =>
        \A r \in QueriedRows :
            LET top == response.ret.results[1]
                index == response.ret.index
            IN  /\ top.score = 1000
                /\ top.pos \in 0..(Len(index) - 1)
                /\ index[top.pos + 1] = index[r]
                /\ (\A j \in 1..Len(index) : j # r => index[j] # index[r])
                      => top.pos = r - 1

\* the third of three rows is queried and comes first
C14_Witness ==
    /\ RoundTrip
    /\ Len(response.ret.movies_df) = 3
    /\ 3 \in QueriedRows
    /\ response.ret.results[1].pos = 2
    /\ response.ret.results[1].score = 1000

\* a load_movie_data call that ran the build, and the build succeeded
CorpusBuilt ==
    /\ SearchDone("load_movie_data")
    /\ response.args.force_rebuild \/ response.args.cache_before = None
    /\ response.ret.status = "ok"

\* the rows of a file whose key is the id of base row m
Matching(rows, key, m) ==
    {i \in 1..Len(rows) : IsNumeric(m.id) /\ rows[i][key] = m.id}

\* the records of the corpus made from base row m
RecordsOf(corpus, m) ==
    {j \in 1..Len(corpus) :
        /\ IsNumeric(m.id)
        /\ corpus[j].id = ToInt(m.id)
        /\ corpus[j].title = m.title
        /\ corpus[j].overview = m.overview}

C18_CacheDiscipline ==
    SearchDone("load_movie_data") =>
        LET force == response.args.force_rebuild
            before == response.args.cache_before
            built == BuildCorpus(response.args.sources)
        IN  /\ (~force /\ before # None) =>
                  /\ response.ret = Ok(Get(before))
                  /\ movies_pkl = before
            /\ (force \/ before = None) => response.ret = built
            /\ (force /\ built.status = "ok") => movies_pkl = Some(built.value)
            /\ response.ret.status # "ok" => movies_pkl = before
            /\ movies_pkl # before =>
                  /\ built.status = "ok"
                  /\ movies_pkl = Some(built.value)

\* a forced rebuild on a credits file with an unparseable key raised and a
\* cache was there before
C18_Witness ==
    /\ SearchDone("load_movie_data")
    /\ response.args.force_rebuild
    /\ response.args.cache_before # None
    /\ response.ret.status = "ValueError"
    /\ movies_pkl = response.args.cache_before

\* C26 as claimed: the embedding_text of every row of a built corpus is the
\* sections Title, Overview, Genres, Keywords, Cast and Director in this
\* order, each label followed by the field, a list field joined by ", ".
C26_LabeledSections ==
    CorpusBuilt =>
        \A j \in 1..Len(response.ret.value) :
            response.ret.value[j].embedding_text =
                embedding_text_titled(response.ret.value[j])

\* a load_movie_data call that ran the build, whatever its outcome
BuildRan ==
    /\ SearchDone("load_movie_data")
    /\ response.args.force_rebuild \/ response.args.cache_before = None

\* the source files that hold a row whose join key is no integer
BadKeyFiles(ds) ==
    {f \in {"movies", "credits", "keywords"} :
        \E i \in 1..Len(ds[f]) : ~IsNumeric(ds[f][i].id)}

\* C27 as claimed: a corpus build aborts only when a join key of a source
\* file is no integer, and it does abort for such a key in credits.csv and
\* in keywords.csv; a build that succeeds has dropped every metadata row
\* with malformed data (an id that is no integer, a JSON cell that does
\* not parse) and kept the others.
C27_MalformedRowsDropped ==
    BuildRan =>
        LET ds == response.args.sources
        IN  /\ response.ret.status # "ok" => BadKeyFiles(ds) # {}
            /\ BadKeyFiles(ds) \cap {"credits", "keywords"} # {} =>
                  response.ret.status # "ok"
            /\ response.ret.status = "ok" =>
                  \A i \in 1..Len(ds.movies) :
                      LET m == ds.movies[i]
                          malformed == ~IsNumeric(m.id) \/ m.genres = Malformed
                      IN  malformed <=>
                            ~\E j \in 1..Len(response.ret.value) :
                                response.ret.value[j].title = m.title

-----------------------------------------------------------------------------
(* The prediction page of the Streamlit frontends.  A submission is one    *)
(* run of the page script with the form submitted; the responses of        *)
(* GET /predict and GET /similar-film are inputs of the run.  A film of a  *)
(* result list is a record; vote_average is None where the JSON holds      *)
(* null, on which render_bento_complete raises TypeError.                  *)

\* largest number of submissions in one session
MaxSubmits == 3

PageOverviews == {<<>>, <<" ">>, <<"a">>}
PageGenres == {<<>>, <<"Drama">>}

Film1 == [title |-> "A", vote_average |-> Some(7100)]
Film2 == [title |-> "B", vote_average |-> Some(0)]
FilmNoVote == [title |-> "C", vote_average |-> None]

\* predict_rating(...): the rating of the JSON body, KeyError for a body
\* without predicted_rating, or the exception of requests
PredictResponses ==
    {Ok(4200), Ok(7230), Raise("HTTPError"), Raise("RequestException"),
     Raise("KeyError")}

\* search_similar_films(overview, k=5): the "results" entry of the JSON
\* body (None for a body without it), or the exception of requests
SimilarResponses ==
    {Ok(Some(<<>>)), Ok(Some(<<Film1>>)), Ok(Some(<<Film2, Film1>>)),
     Ok(Some(<<FilmNoVote>>)), Ok(None),
     Raise("HTTPError"), Raise("RequestException")}

\* render_bento_complete(rating, movies) returns, or raises TypeError
Renders(movies) == \A i \in 1..Len(movies) : movies[i].vote_average # None

\* render_prediction_page() of src/apps/frontend/app.py with the form
\* submitted: the session state after the run and the keys it assigned
render_prediction_page(ss, overview_text, genres, predicted, similar) ==
    IF ~Truthy(Strip(overview_text)) \/ genres = <<>>
    THEN [state |-> ss, assigned |-> {}]
    ELSE IF predicted.status # "ok"
    THEN [state |-> [ss EXCEPT !.show_result = FALSE, !.similar_movies = <<>>],
          assigned |-> {"show_result", "similar_movies"}]
    ELSE
    LET movies == IF similar.status # "ok" THEN <<>>
                  ELSE IF similar.value = None THEN <<>>
                  ELSE Get(similar.value)
        stored == [rating |-> Some(predicted.value), show_result |-> TRUE,
                   similar_movies |-> movies]
    IN  IF movies # <<>> /\ ~Renders(movies)
        THEN [state |-> [stored EXCEPT !.show_result = FALSE,
                                       !.similar_movies = <<>>],
              assigned |-> {"rating", "show_result", "similar_movies"}]
        ELSE [state |-> stored,
              assigned |-> {"rating", "show_result", "similar_movies"}]

\* main() of src/frontend/app.py with the form submitted: the session state
\* holds rating and show_result only, and only a prediction that succeeded
\* assigns them
legacy_main(ss, overview_text, genres, predicted, similar) ==
    IF ~Truthy(Strip(overview_text)) \/ genres = <<>>
    THEN [state |-> ss, assigned |-> {}]
    ELSE IF predicted.status # "ok"
    THEN [state |-> ss, assigned |-> {}]
    ELSE [state |-> [ss EXCEPT !.rating = Some(predicted.value),
                               !.show_result = TRUE],
          assigned |-> {"rating", "show_result"}]

InitPage ==
    /\ page \in {APPS_FRONTEND, LEGACY_FRONTEND}
    /\ session_state =
          IF page = APPS_FRONTEND
          THEN [rating |-> None, similar_movies |-> <<>>, show_result |-> FALSE]
          ELSE [rating |-> None, show_result |-> FALSE]
    /\ origin = [rating |-> 0, similar_movies |-> 0, show_result |-> 0]
    /\ submits = 0
    /\ submitted = Unset
    /\ ApiIdle
    /\ RaceIdle
    /\ EncIdle
    /\ SysIdle

\* what a run of the page leaves behind
Submitted(overview_text, genres, predicted, similar, out) ==
    /\ session_state' = out.state
    /\ origin' = [key \in DOMAIN origin |->
                     IF key \in out.assigned THEN submits + 1 ELSE origin[key]]
    /\ submits' = submits + 1
    /\ submitted' = [overview |-> overview_text, genres |-> genres,
                     predicted |-> predicted, similar |-> similar,
                     before |-> session_state]
    /\ UNCHANGED <<page, encVars, sysVars, memoVars, apiVars, raceVars>>

\* the form is submitted on the page of src/apps/frontend/app.py
SubmitForm ==
    /\ page = APPS_FRONTEND
    /\ submits < MaxSubmits
    /\ \E overview_text \in PageOverviews, genres \in PageGenres,
          predicted \in PredictResponses, similar \in SimilarResponses :
          Submitted(overview_text, genres, predicted, similar,
                    render_prediction_page(session_state, overview_text, genres,
                                           predicted, similar))

\* the form is submitted on the page of src/frontend/app.py
SubmitLegacyForm ==
    /\ page = LEGACY_FRONTEND
    /\ submits < MaxSubmits
    /\ \E overview_text \in PageOverviews, genres \in PageGenres,
          predicted \in PredictResponses, similar \in SimilarResponses :
          Submitted(overview_text, genres, predicted, similar,
                    legacy_main(session_state, overview_text, genres,
                                predicted, similar))

NextPage ==
    \/ SubmitForm
    \/ SubmitLegacyForm

SpecPage == InitPage /\ [][NextPage]_vars

\* st.session_state.get(key, default)
StateGet(key, default) ==
    IF key \in DOMAIN session_state THEN session_state[key] ELSE default

\* the kinds of the last submission
Rejected ==
    submitted # Unset /\ (~Truthy(Strip(submitted.overview)) \/ submitted.genres = <<>>)
PredictionFailed ==
    submitted # Unset /\ ~Rejected /\ submitted.predicted.status # "ok"
SimilarFailed ==
    /\ submitted # Unset /\ ~Rejected
    /\ submitted.predicted.status = "ok"
    /\ submitted.similar.status # "ok"

\* C30 as claimed, for both pages: show_result implies a rating is stored;
\* the list shown with a rating was stored by the submission that stored
\* the rating; after a submission whose similar-films request failed the
\* state holds the new rating, show_result and an empty list; after one
\* whose prediction request failed show_result is False and the list empty.
C30_SessionConsistent ==
    /\ session_state.show_result => session_state.rating # None
    /\ (session_state.show_result /\ StateGet("similar_movies", <<>>) # <<>>) =>
          origin.similar_movies = origin.rating
    /\ SimilarFailed =>
          /\ session_state.show_result
          /\ session_state.rating = Some(submitted.predicted.value)
          /\ StateGet("similar_movies", <<>>) = <<>>
    /\ PredictionFailed =>
          /\ ~session_state.show_result
          /\ StateGet("similar_movies", <<>>) = <<>>

-----------------------------------------------------------------------------
(* SpecProcess: one API process of src/apps/api/app.py.  startup_event     *)
(* runs first, then GET /predict and GET /similar-film requests are        *)
(* served one after the other, while artifacts that were missing are put   *)
(* in place.  loadable holds the artifacts of preprocessing.py whose file  *)
(* loads, model_files the regression model files, model_ok whether the     *)
(* search embedding model can be constructed.                              *)

\* largest number of requests served by the process
MaxRequests == 3

\* a loader that keeps what a failed load left as the cached value
load_memoized_sticky(name, globals, avail) ==
    IF globals[name] # None
    THEN [ret |-> Ok(Get(globals[name])), globals |-> globals, attempted |-> <<>>]
    ELSE IF name \in avail
    THEN [ret |-> Ok(name), globals |-> [globals EXCEPT ![name] = Some(name)],
          attempted |-> <<name>>]
    ELSE [ret |-> Raise("ArtifactError"),
          globals |-> [globals EXCEPT ![name] = Some("partial")],
          attempted |-> <<name>>]

\* load_pca_transformer / load_embedding_model / load_budget_medians: the
\* global is returned when set; otherwise the artifact is loaded, and stored
\* only when the load returned
load_memoized(name, globals, avail) ==
    IF globals[name] # None
    THEN [ret |-> Ok(Get(globals[name])), globals |-> globals, attempted |-> <<>>]
    ELSE IF name \in avail
    THEN [ret |-> Ok(name), globals |-> [globals EXCEPT ![name] = Some(name)],
          attempted |-> <<name>>]
    ELSE [ret |-> Raise("ArtifactError"), globals |-> globals,
          attempted |-> <<name>>]

\* the loaders preprocess_single_movie calls, in call order, up to the first
\* that raises
RECURSIVE LoadChain(_, _, _)
LoadChain(names, globals, avail) ==
    IF names = <<>> THEN [globals |-> globals, attempted |-> <<>>, failed |-> {}]
    ELSE LET l == load_memoized(Head(names), globals, avail)
         IN  IF l.ret.status # "ok"
             THEN [globals |-> l.globals, attempted |-> l.attempted,
                   failed |-> {Head(names)}]
             ELSE LET rest == LoadChain(Tail(names), l.globals, avail)
                  IN  [globals |-> rest.globals,
                       attempted |-> l.attempted \o rest.attempted,
                       failed |-> rest.failed]

\* create_pca_features, then create_budget_features
ENCODER_LOADS == <<"embedding_model", "pca_transformer", "budget_medians">>

\* load_model() of model.py seen as a loader: attempted when the default
\* path is not in _model_cache
load_default_model(cache, files) ==
    LET l == load_model_cached(None, cache, files)
    IN  [ret |-> l.ret, cache |-> l.cache,
         attempted |-> IF DEFAULT_MODEL_PATH \in DOMAIN cache THEN <<>> ELSE <<"model">>]

\* the loads of a GET /predict request: none for a blank overview, else
\* load_model and then the loaders of the encoder
predict_loads(ov, globals, cache, files, avail) ==
    IF Blank(ov)
    THEN [globals |-> globals, cache |-> cache, attempted |-> <<>>, failed |-> {}]
    ELSE LET m == load_default_model(cache, files)
         IN  IF m.ret.status # "ok"
             THEN [globals |-> globals, cache |-> m.cache,
                   attempted |-> m.attempted, failed |-> {"model"}]
             ELSE LET c == LoadChain(ENCODER_LOADS, globals, avail)
                  IN  [globals |-> c.globals, cache |-> m.cache,
                       attempted |-> m.attempted \o c.attempted,
                       failed |-> c.failed]

\* the loads of a GET /similar-film request: load_index reads index.faiss
\* when it exists, load_similarity_model constructs the embedding model,
\* load_movie_data unpickles movies.pkl when it exists
similar_loads(query, pkl, idx, ok) ==
    IF ~Truthy(Strip(query)) \/ idx = None
    THEN [attempted |-> <<>>, failed |-> {}]
    ELSE IF ~ok
    THEN [attempted |-> <<"index.faiss", "search_model">>, failed |-> {"search_model"}]
    ELSE [attempted |-> <<"index.faiss", "search_model">> \o
                        (IF pkl # None THEN <<"movies.pkl">> ELSE <<>>),
          failed |-> {}]

\* the loads of startup_event: three try blocks, the third one stops at its
\* first exception
startup_loads(globals, cache, files, avail, pkl, idx, ds, ok) ==
    LET m == load_default_model(cache, files)
        e == load_memoized("embedding_model", globals, avail)
        lm == load_movie_data(FALSE, pkl, ds)
        corpus == IF pkl # None THEN <<"movies.pkl">> ELSE <<>>
        index == IF idx # None THEN <<"index.faiss">> ELSE <<>>
        third == IF lm.ret.status # "ok"
                 THEN [attempted |-> corpus, failed |-> {"movies.pkl"}]
                 ELSE [attempted |-> corpus \o index \o <<"search_model">>,
                       failed |-> IF ok THEN {} ELSE {"search_model"}]
    IN  [globals |-> e.globals, cache |-> m.cache, pkl |-> lm.pkl,
         attempted |-> m.attempted \o e.attempted \o third.attempted,
         failed |-> (IF m.ret.status # "ok" THEN {"model"} ELSE {})
                    \cup (IF e.ret.status # "ok" THEN {"embedding_model"} ELSE {})
                    \cup third.failed]

\* the number of loads of each artifact after a call attempted some and
\* failed on some
Counted(counts, attempted, failed) ==
    [a \in DOMAIN counts |->
        counts[a] + Cardinality({i \in 1..Len(attempted) :
                                    attempted[i] = a /\ a \notin failed})]

ProcessCorpus == BuildCorpus(DatasetAB).value

InitProcess ==
    /\ loadable \in {ARTIFACTS} \cup {ARTIFACTS \ {a} : a \in MEMO_GLOBALS}
    /\ model_files \in {[p \in ModelPaths |-> c] : c \in {"absent", "model 1"}}
    /\ model_cache = EmptyDict
    /\ reads = [p \in ModelPaths |-> 0]
    /\ loaded = Unset
    /\ loads = 0
    /\ dataset = DatasetAB
    /\ movies_pkl \in {None, Some(ProcessCorpus)}
    /\ index_faiss \in {None, Some(Embeddings(ProcessCorpus))}
    /\ model_ok \in BOOLEAN
    /\ response = Unset
    /\ movie_data = MovieData(2024, 148, 0, Str_Drama)
    /\ overview = None
    /\ budget = None
    /\ budget_medians = MediansFull
    /\ result = Unset
    /\ prev = Unset
    /\ changed = "none"
    /\ calls = 0
    /\ raw = 7234
    /\ prediction = Unset
    /\ ApiIdle
    /\ PageIdle
    /\ RaceIdle

\* startup_event(): every load sits in a try block, so the API starts
\* whatever fails
Startup ==
    /\ ~started
    /\ LET out == startup_loads(module_globals, model_cache, model_files, loadable,
                                movies_pkl, index_faiss, dataset, model_ok)
       IN  /\ module_globals' = out.globals
           /\ model_cache' = out.cache
           /\ movies_pkl' = out.pkl
           /\ disk_loads' = Counted(disk_loads, out.attempted, out.failed)
           /\ served' = [op |-> "startup", ret |-> Http(200),
                         attempted |-> out.attempted, failed |-> out.failed,
                         globals_before |-> module_globals,
                         cache_before |-> model_cache]
    /\ started' = TRUE
    /\ UNCHANGED <<requests, encVars, dataset, index_faiss, model_ok, response,
                   model_files, reads, loaded, loads, pageVars, raceVars>>

\* GET /predict
RequestPredict ==
    /\ started
    /\ requests < MaxRequests
    /\ \E ov \in {Some(<<" ">>), Some(<<"a">>)} :
          LET out == predict_loads(ov, module_globals, model_cache, model_files,
                                   loadable)
              avail == ARTIFACTS \ out.failed
          IN  /\ module_globals' = out.globals
              /\ model_cache' = out.cache
              /\ disk_loads' = Counted(disk_loads, out.attempted, out.failed)
              /\ served' = [op |-> "predict",
                            ret |-> api_predict(movie_data, ov, budget,
                                                budget_medians, avail, raw),
                            attempted |-> out.attempted, failed |-> out.failed,
                            globals_before |-> module_globals,
                            cache_before |-> model_cache]
    /\ requests' = requests + 1
    /\ UNCHANGED <<started, encVars, sysVars, model_files, reads, loaded, loads,
                   pageVars, raceVars>>

\* GET /similar-film
RequestSimilar ==
    /\ started
    /\ requests < MaxRequests
    /\ \E query \in {<<" ">>, <<"a">>} :
          LET out == similar_film(query, 1, movies_pkl, index_faiss, dataset, model_ok)
              l == similar_loads(query, movies_pkl, index_faiss, model_ok)
          IN  /\ movies_pkl' = out.pkl
              /\ index_faiss' = out.idx
              /\ disk_loads' = Counted(disk_loads, l.attempted, l.failed)
              /\ served' = [op |-> "similar_film", ret |-> Http(out.ret.status),
                            attempted |-> l.attempted, failed |-> l.failed,
                            globals_before |-> module_globals,
                            cache_before |-> model_cache]
    /\ requests' = requests + 1
    /\ UNCHANGED <<started, module_globals, encVars, dataset, model_ok, response,
                   memoVars, pageVars, raceVars>>

\* the artifacts that were missing are put in place, and index.faiss is
\* built from the corpus
RestoreArtifacts ==
    /\ \/ loadable # ARTIFACTS
       \/ ~model_ok
       \/ index_faiss = None
       \/ \E p \in ModelPaths : model_files[p] = "absent"
    /\ loadable' = ARTIFACTS
    /\ model_ok' = TRUE
    /\ model_files' = [p \in ModelPaths |-> "model 1"]
    /\ index_faiss' = Some(Embeddings(ProcessCorpus))
    /\ UNCHANGED <<movie_data, overview, budget, budget_medians, result, prev,
                   changed, calls, raw, prediction, dataset, movies_pkl, response,
                   model_cache, reads, loaded, loads, procVars>>

NextProcess ==
    \/ Startup
    \/ RequestPredict
    \/ RequestSimilar
    \/ RestoreArtifacts

SpecProcess == InitProcess /\ [][NextProcess]_vars

\* C23 as claimed: in one process movies.pkl and index.faiss are each
\* loaded from disk at most once, whatever requests are served.
C23_CorpusIndexLoadedOnce ==
    /\ disk_loads["movies.pkl"] <= 1
    /\ disk_loads["index.faiss"] <= 1

\* C24 as claimed: in one process each sentence-embedding model, that of
\* the encoder and that of the search, is constructed at most once.
C24_EmbeddingModelLoadedOnce ==
    /\ disk_loads["embedding_model"] <= 1
    /\ disk_loads["search_model"] <= 1

\* whether the memo of an artifact holds nothing
NotCached(a) ==
    IF a = "model" THEN DEFAULT_MODEL_PATH \notin DOMAIN model_cache
    ELSE module_globals[a] = None

\* whether the memo of an artifact held nothing when the last call began
NotCachedBefore(a) ==
    IF a = "model" THEN DEFAULT_MODEL_PATH \notin DOMAIN served.cache_before
    ELSE served.globals_before[a] = None

\* the artifacts the last call attempted to load
Attempted == {served.attempted[i] : i \in 1..Len(served.attempted)}

\* C29: a call attempts each load at most once; a memoized artifact whose
\* load failed has no entry in its memo afterwards, and the memos of the
\* artifacts the call did not load are as they were; a GET /predict whose
\* load failed answers 500; startup_event leaves the API started whatever
\* failed; and a request that reaches an artifact whose memo is empty
\* attempts the load, also after an earlier failure.
C29_FailedLoadNotCached ==
    served # Unset =>
        /\ \A i, j \in 1..Len(served.attempted) :
              i # j => served.attempted[i] # served.attempted[j]
        /\ served.failed \subseteq Attempted \cup {"movies.pkl"}
        /\ \A a \in served.failed \cap ARTIFACTS : NotCached(a)
        /\ \A a \in ARTIFACTS :
              (NotCached(a) # NotCachedBefore(a)) =>
                  /\ NotCachedBefore(a)
                  /\ a \in Attempted \ served.failed
        /\ (served.op = "predict" /\ served.failed # {}) => served.ret = Http(500)
        /\ served.op = "startup" => started
        /\ (served.op = "predict" /\ served.ret # Http(400)) =>
              \A a \in ARTIFACTS :
                  (NotCachedBefore(a) /\ (served.failed = {} \/ a \in served.failed))
                      => a \in Attempted

\* a request failed on the PCA transformer after it had loaded the
\* embedding model, which stays cached
C29_Witness ==
    /\ served # Unset
    /\ served.op = "predict"
    /\ served.failed = {"pca_transformer"}
    /\ module_globals["pca_transformer"] = None
    /\ module_globals["embedding_model"] # None
    /\ served.ret = Http(500)

-----------------------------------------------------------------------------
(* SpecRace: request threads of one process inside the loader of the same  *)
(* memoized artifact.  A thread runs the statements of the loader one at a *)
(* time: the test of the memo, the load, the assignment of the memo, the   *)
(* return; the threads interleave between statements.  An object records   *)
(* the thread that loaded it and whether its load has completed.           *)

\* largest number of loader calls begun by the threads together
MaxRaceCalls == 3

Artifact(art, t, complete) == [artifact |-> art, by |-> t, complete |-> complete]

\* the memo of an artifact: the module global, or the entry of _model_cache
MemoOf(art, globals, cache) ==
    IF art = "model"
    THEN IF DEFAULT_MODEL_PATH \in DOMAIN cache
         THEN Some(cache[DEFAULT_MODEL_PATH]) ELSE None
    ELSE globals[art]

\* a loader that publishes the object in the memo before it is loaded
loader_step_publish_first(art, at, memo, local, t, ok) ==
    CASE at = "check" ->
           IF memo = None
           THEN [pc |-> "load", memo |-> Some(Artifact(art, t, FALSE)),
                 tmp |-> local, received |-> Unset, loaded |-> FALSE]
           ELSE [pc |-> "idle", memo |-> memo, tmp |-> local,
                 received |-> Ok(memo), loaded |-> FALSE]
      [] at = "load" ->
           IF ok
           THEN [pc |-> "store", memo |-> memo, tmp |-> Some(Artifact(art, t, TRUE)),
                 received |-> Unset, loaded |-> TRUE]
           ELSE [pc |-> "idle", memo |-> memo, tmp |-> None,
                 received |-> Raise("ArtifactError"), loaded |-> FALSE]
      [] at = "store" ->
           [pc |-> "return", memo |-> local, tmp |-> local,
            received |-> Unset, loaded |-> FALSE]
      [] at = "return" ->
           [pc |-> "idle", memo |-> memo, tmp |-> None,
            received |-> Ok(memo), loaded |-> FALSE]

\* one statement of load_model (model.py) or of load_pca_transformer,
\* load_embedding_model, load_budget_medians (preprocessing.py) run by
\* thread t: the memo, the thread's local object and position after it, and
\* what the call returned if it returned
loader_step(art, at, memo, local, t, ok) ==
    CASE at = "check" ->
           IF memo = None
           THEN [pc |-> "load", memo |-> memo, tmp |-> local,
                 received |-> Unset, loaded |-> FALSE]
           ELSE IF art = "model"
           THEN [pc |-> "idle", memo |-> memo, tmp |-> local,
                 received |-> Ok(memo), loaded |-> FALSE]
           ELSE [pc |-> "return", memo |-> memo, tmp |-> local,
                 received |-> Unset, loaded |-> FALSE]
      [] at = "load" ->
           IF ok
           THEN [pc |-> "store", memo |-> memo, tmp |-> Some(Artifact(art, t, TRUE)),
                 received |-> Unset, loaded |-> TRUE]
           ELSE [pc |-> "idle", memo |-> memo, tmp |-> None,
                 received |-> Raise("ArtifactError"), loaded |-> FALSE]
      [] at = "store" ->
           [pc |-> "return", memo |-> local, tmp |-> local,
            received |-> Unset, loaded |-> FALSE]
      [] at = "return" ->
           [pc |-> "idle", memo |-> memo, tmp |-> None,
            received |-> Ok(IF art = "model" THEN local ELSE memo),
            loaded |-> FALSE]

InitRace ==
    /\ contended \in ARTIFACTS
    /\ pc = [t \in Threads |-> "idle"]
    /\ tmp = [t \in Threads |-> None]
    /\ received = [t \in Threads |-> Unset]
    /\ entered = 0
    /\ ApiIdle
    /\ PageIdle
    /\ EncIdle
    /\ SysIdle

\* a request thread calls the loader
EnterLoader(t) ==
    /\ pc[t] = "idle"
    /\ entered < MaxRaceCalls
    /\ entered' = entered + 1
    /\ pc' = [pc EXCEPT ![t] = "check"]
    /\ received' = [received EXCEPT ![t] = Unset]
    /\ UNCHANGED <<contended, tmp, encVars, sysVars, memoVars, pageVars, apiVars>>

\* a thread inside the loader runs its next statement; a load returns the
\* object or raises
LoaderStep(t) ==
    /\ pc[t] # "idle"
    /\ \E ok \in IF pc[t] = "load" THEN BOOLEAN ELSE {TRUE} :
          LET out == loader_step(contended, pc[t],
                                 MemoOf(contended, module_globals, model_cache),
                                 tmp[t], t, ok)
          IN  /\ pc' = [pc EXCEPT ![t] = out.pc]
              /\ tmp' = [tmp EXCEPT ![t] = out.tmp]
              /\ received' = [received EXCEPT ![t] = out.received]
              /\ IF contended = "model"
                 THEN /\ model_cache' = IF out.memo = None THEN model_cache
                                        ELSE (DEFAULT_MODEL_PATH :> Get(out.memo))
                                             @@ model_cache
                      /\ UNCHANGED module_globals
                 ELSE /\ module_globals' = [module_globals EXCEPT ![contended] = out.memo]
                      /\ UNCHANGED model_cache
              /\ disk_loads' = IF out.loaded
                               THEN [disk_loads EXCEPT ![contended] = @ + 1]
                               ELSE disk_loads
    /\ UNCHANGED <<contended, entered, started, requests, served, encVars, sysVars,
                   model_files, reads, loaded, loads, pageVars>>

NextRace ==
    \/ \E t \in Threads : EnterLoader(t)
    \/ \E t \in Threads : LoaderStep(t)

SpecRace == InitRace /\ [][NextRace]_vars

\* the memo of the contended artifact
Memo == MemoOf(contended, module_globals, model_cache)

\* C22: under every interleaving of the threads, what a loader call returns
\* is an object of the artifact whose load has completed, never None and
\* never an object still loading; the memo, when set, holds a completely
\* loaded object; and when every thread has left the loader and a load has
\* succeeded, the memo is set.
C22_RaceReturnsLoaded ==
    /\ \A t \in Threads :
          (received[t] # Unset /\ received[t].status = "ok") =>
              /\ received[t].value # None
              /\ Get(received[t].value).artifact = contended
              /\ Get(received[t].value).complete
    /\ Memo # None => Get(Memo).complete /\ Get(Memo).artifact = contended
    /\ (disk_loads[contended] > 0 /\ \A t \in Threads : pc[t] = "idle") => Memo # None

\* two threads both found the memo empty, the artifact was loaded twice and
\* both calls returned a loaded object
C22_Witness ==
    /\ disk_loads[contended] = 2
    /\ \A t \in Threads : pc[t] = "idle"
    /\ received[1] # Unset /\ received[1].status = "ok"
    /\ received[2] # Unset /\ received[2].status = "ok"
    /\ Get(received[1].value).complete
    /\ Get(received[2].value).complete

-----------------------------------------------------------------------------
(* SpecConcurrent: a similarity search and a rebuild running at the same   *)
(* time over the files of one deployment.  The rebuild is                  *)
(* search(query, k, force_rebuild=True): load_movie_data(True) writes      *)
(* movies.pkl, then build_index writes index.faiss.  The search is         *)
(* GET /similar-film, which reads index.faiss and then movies.pkl, or      *)
(* search(query, k), which reads movies.pkl and then index.faiss.  The     *)
(* threads interleave between the file accesses.                           *)

\* largest number of searches and rebuilds begun
MaxOps == 2

InitConcurrent ==
    /\ dataset \in DatasetVersions
    /\ \E built \in {FALSE, TRUE} :
          /\ movies_pkl = IF built THEN Some(BuildCorpus(dataset).value) ELSE None
          /\ index_faiss = IF built THEN Some(Embeddings(BuildCorpus(dataset).value))
                           ELSE None
    /\ model_ok = TRUE
    /\ response = Unset
    /\ contended = "model"
    /\ pc = [t \in {"search", "rebuild"} |-> "idle"]
    /\ tmp = [t \in {"search", "rebuild"} |-> None]
    /\ received = [t \in Threads |-> Unset]
    /\ entered = 0
    /\ EncIdle
    /\ MemoIdle
    /\ PageIdle
    /\ ApiIdle

\* GET /similar-film, first half: the query is checked and load_index()
\* reads index.faiss
SimilarFilmLoadIndex ==
    /\ pc["search"] = "idle"
    /\ entered < MaxOps
    /\ entered' = entered + 1
    /\ \E query \in Queries, k \in 1..MaxK :
          LET args == [query |-> query, k |-> k]
          IN  IF ~Truthy(Strip(query)) \/ load_index(index_faiss) = None
              THEN /\ response' = [op |-> "similar_film", args |-> args,
                                   index_before |-> index_faiss,
                                   ret |-> similar_film(query, k, movies_pkl, index_faiss,
                                                        dataset, model_ok).ret]
                   /\ UNCHANGED <<pc, tmp>>
              ELSE /\ pc' = [pc EXCEPT !["search"] = "similar_film"]
                   /\ tmp' = [tmp EXCEPT !["search"] =
                                 Some([args |-> args, index_before |-> index_faiss])]
                   /\ UNCHANGED response
    /\ UNCHANGED <<dataset, movies_pkl, index_faiss, model_ok, contended, received,
                   encVars, memoVars, pageVars, apiVars>>

\* GET /similar-film, second half: load_movie_data() reads movies.pkl, or
\* builds it, and the positions the index returned are resolved in it
SimilarFilmLoadData ==
    /\ pc["search"] = "similar_film"
    /\ LET held == Get(tmp["search"])
           out == similar_film(held.args.query, held.args.k, movies_pkl,
                               held.index_before, dataset, model_ok)
       IN  /\ response' = [op |-> "similar_film", args |-> held.args,
                           index_before |-> held.index_before, ret |-> out.ret]
           /\ movies_pkl' = out.pkl
    /\ pc' = [pc EXCEPT !["search"] = "idle"]
    /\ tmp' = [tmp EXCEPT !["search"] = None]
    /\ UNCHANGED <<dataset, index_faiss, model_ok, contended, received, entered,
                   encVars, memoVars, pageVars, apiVars>>

\* search(query, k), first half: load_movie_data() reads movies.pkl or
\* builds it
SearchLoadData ==
    /\ pc["search"] = "idle"
    /\ entered < MaxOps
    /\ entered' = entered + 1
    /\ \E query \in Queries, k \in 1..MaxK :
          LET lm == load_movie_data(FALSE, movies_pkl, dataset)
              args == [query |-> query, k |-> k, force_rebuild |-> FALSE]
          IN  /\ movies_pkl' = lm.pkl
              /\ IF lm.ret.status # "ok"
                 THEN /\ response' = [op |-> "search", args |-> args,
                                      index_before |-> index_faiss, ret |-> lm.ret]
                      /\ UNCHANGED <<pc, tmp>>
                 ELSE /\ pc' = [pc EXCEPT !["search"] = "search"]
                      /\ tmp' = [tmp EXCEPT !["search"] =
                                    Some([args |-> args, movies_df |-> lm.ret.value])]
                      /\ UNCHANGED response
    /\ UNCHANGED <<dataset, index_faiss, model_ok, contended, received,
                   encVars, memoVars, pageVars, apiVars>>

\* search(query, k), second half: the index is read from index.faiss, or
\* built from the corpus held, and queried
SearchLoadIndex ==
    /\ pc["search"] = "search"
    /\ LET held == Get(tmp["search"])
           out == search(held.args.query, held.args.k, FALSE,
                         Some(held.movies_df), index_faiss, dataset, model_ok)
       IN  /\ response' = [op |-> "search", args |-> held.args,
                           index_before |-> index_faiss, ret |-> out.ret]
           /\ index_faiss' = out.idx
    /\ pc' = [pc EXCEPT !["search"] = "idle"]
    /\ tmp' = [tmp EXCEPT !["search"] = None]
    /\ UNCHANGED <<dataset, movies_pkl, model_ok, contended, received, entered,
                   encVars, memoVars, pageVars, apiVars>>

\* the rebuild, first half: load_movie_data(True) builds the corpus from the
\* raw files and writes movies.pkl
RebuildWriteCorpus ==
    /\ pc["rebuild"] = "idle"
    /\ entered < MaxOps
    /\ entered' = entered + 1
    /\ LET lm == load_movie_data(TRUE, movies_pkl, dataset)
       IN  /\ movies_pkl' = lm.pkl
           /\ IF lm.ret.status # "ok"
              THEN UNCHANGED <<pc, tmp>>
              ELSE /\ pc' = [pc EXCEPT !["rebuild"] = "build_index"]
                   /\ tmp' = [tmp EXCEPT !["rebuild"] = Some(lm.ret.value)]
    /\ UNCHANGED <<dataset, index_faiss, model_ok, response, contended, received,
                   encVars, memoVars, pageVars, apiVars>>

\* the rebuild, second half: build_index(movies_df) embeds the corpus it
\* holds and writes index.faiss
RebuildWriteIndex ==
    /\ pc["rebuild"] = "build_index"
    /\ index_faiss' = build_index(Get(tmp["rebuild"]), index_faiss, model_ok).idx
    /\ pc' = [pc EXCEPT !["rebuild"] = "idle"]
    /\ tmp' = [tmp EXCEPT !["rebuild"] = None]
    /\ UNCHANGED <<dataset, movies_pkl, model_ok, response, contended, received,
                   entered, encVars, memoVars, pageVars, apiVars>>

NextConcurrent ==
    \/ UpdateDataset
    \/ SimilarFilmLoadIndex
    \/ SimilarFilmLoadData
    \/ SearchLoadData
    \/ SearchLoadIndex
    \/ RebuildWriteCorpus
    \/ RebuildWriteIndex

SpecConcurrent == InitConcurrent /\ [][NextConcurrent]_vars

\* C21 as claimed: whatever rebuild runs at the same time, the corpus a
\* search that returned results resolved the positions in is the corpus
\* the index it queried was built from.
C21_SearchSeesOnePair ==
    /\ (SearchDone("similar_film") /\ response.ret.status = 200) =>
          Embeddings(response.ret.movies_df) = response.ret.index
    /\ (SearchDone("search") /\ response.ret.status = "ok") =>
          Embeddings(response.ret.movies_df) = response.ret.index
====
